---------------------------- MODULE Spec2Model ----------------------------
(***************************************************************************)
(* Connection-lifecycle layer of the auth service:                         *)
(*   - the Vault client (internal/storage/vault/service.go): NewClient,    *)
(*     the TLS assembly, Connect and Stop;                                 *)
(*   - the Redis service (internal/service/redis/service.go): New, the     *)
(*     once-guarded Connect and the mutex-guarded Stop.                    *)
(* The two components share no state in the program; each has its own      *)
(* specification (VaultSpec, RedisSpec) over the variables it owns.        *)
(* Functions whose result depends on their arguments alone (the path and   *)
(* TLS helpers, redis.New, the config validation, auth.New) also have a    *)
(* specification each, which draws the arguments and applies the function. *)
(***************************************************************************)
EXTENDS Integers, Sequences, FiniteSets, TLC

VARIABLES
    \* ---- vault.Client -------------------------------------------------
    vstage,     \* "start" before NewClient, then "ready" or "failed";
                \* "literal" for a Client written as a struct literal
    vc,         \* the descriptor NewClient filled from the options
    newRet,     \* what NewClient returned: [nil, err]
    fs,         \* absolute paths for which os.Stat does not report NotExist
    nextId,     \* identity of the next *api.Client that api.NewClient makes
    vhist,      \* the Connect/Stop calls made so far, oldest first
    \* ---- redis.Service ------------------------------------------------
    rstage,     \* "start" before New, then "ready" or "failed"
    rnewRet,    \* what New returned: [nil, err]
    svc,        \* the Service fields: cfg, client, err
    once,       \* s.once: "fresh", "running" or "done"
    mu,         \* s.mu: 0 when free, else the caller holding it
    pc,         \* each caller's position
    call,       \* each caller's current (or last) call and its locals
    calls,      \* number of calls started so far
    clients,    \* the concrete clients built so far: id -> its record
    rets,       \* every value a Connect call has returned so far
    \* ---- package functions called on their own ------------------------
    fcall,      \* the call under examination: [fn, args, res]; res is <<>>
                \* until the function has returned, then <<its results>>
    \* ---- the process (func main) -------------------------------------
    main        \* main's position, its deferred calls and log, the signal
                \* context and the supervised server task

vaultVars == <<vstage, vc, newRet, fs, nextId, vhist>>
redisVars == <<rstage, rnewRet, svc, once, mu, pc, call, calls, clients, rets>>
vars == <<vaultVars, redisVars, fcall, main>>

(***************************************************************************)
(* Bounds                                                                  *)
(***************************************************************************)
MaxOpts == 4        \* options passed to vault.NewClient
MaxOps == 3         \* Connect/Stop calls on one vault.Client
NumCallers == 2     \* goroutines calling Connect/Stop on one redis.Service
MaxCalls == 3       \* Connect/Stop calls started on one redis.Service
MaxRedisOpts == 3   \* options passed to redis.New

(***************************************************************************)
(* Errors.  An error is the chain of its frames, outermost first; each     *)
(* frame is a format string with its arguments.  nil is the empty chain.   *)
(* fmt.Errorf("...: %w", err) puts one frame in front of err.              *)
(***************************************************************************)
NilErr == <<>>

Errorf(msg, args, cause) == <<[msg |-> msg, args |-> args]>> \o cause

ErrorsNew(msg) == Errorf(msg, <<>>, NilErr)

(***************************************************************************)
(* Paths.  A path is the sequence of its components; an absolute path      *)
(* starts with the component "/".  The empty path is the empty string.     *)
(***************************************************************************)
EmptyPath == <<>>

Cwd == <<"/", "app">>

IsAbs(p) == Len(p) > 0 /\ p[1] = "/"

RECURSIVE CleanParts(_, _)
\* filepath.Clean on the components: "." is dropped, ".." removes the
\* component before it (and is dropped at the root).
CleanParts(done, rest) ==
    IF rest = <<>> THEN done
    ELSE LET h == Head(rest) IN
         IF h = "." THEN CleanParts(done, Tail(rest))
         ELSE IF h = ".." THEN
              IF Len(done) > 1 THEN CleanParts(SubSeq(done, 1, Len(done) - 1), Tail(rest))
              ELSE CleanParts(done, Tail(rest))
         ELSE CleanParts(Append(done, h), Tail(rest))

\* filepath.Abs: an absolute path is cleaned, a relative one is joined to
\* the working directory and cleaned.
FilepathAbs(p) ==
    IF IsAbs(p) THEN CleanParts(<<"/">>, Tail(p))
    ELSE CleanParts(<<"/">>, Tail(Cwd) \o p)

(***************************************************************************)
(* vault.Client                                                            *)
(***************************************************************************)
NilClient == <<>>

ZeroClient ==
    [client |-> NilClient, address |-> "", token |-> "",
     insecureSkipTLS |-> FALSE, caPath |-> EmptyPath,
     clientCertPath |-> EmptyPath, clientKeyPath |-> EmptyPath]

Addresses == {"", "https://localhost:8200"}
Tokens == {"", "vault-token"}
CaPaths == {EmptyPath, <<"ca.pem">>}
CertPaths == {EmptyPath, <<"/", "path", "to", "cert.pem">>}
KeyPaths == {EmptyPath, <<"certs", "..", "key.pem">>}

FileUniverse ==
    {FilepathAbs(p) : p \in (CaPaths \cup CertPaths \cup KeyPaths) \ {EmptyPath}}

WithAddress(address) == [opt |-> "WithAddress", address |-> address]
WithToken(token) == [opt |-> "WithToken", token |-> token]
WithInsecureSkipTLS(insecure) == [opt |-> "WithInsecureSkipTLS", insecure |-> insecure]
WithTLSConfig(caPath, clientCertPath, clientKeyPath) ==
    [opt |-> "WithTLSConfig", caPath |-> caPath,
     clientCertPath |-> clientCertPath, clientKeyPath |-> clientKeyPath]

ClientOptions ==
    {WithAddress(a) : a \in Addresses}
    \cup {WithToken(t) : t \in Tokens}
    \cup {WithInsecureSkipTLS(b) : b \in BOOLEAN}
    \cup {WithTLSConfig(t[1], t[2], t[3]) : t \in CaPaths \X CertPaths \X KeyPaths}

OptSeqs == UNION {[1..n -> ClientOptions] : n \in 0..MaxOpts}

\* One option function applied to the descriptor.
ApplyOption(d, o) ==
    IF o.opt = "WithAddress" THEN [d EXCEPT !.address = o.address]
    ELSE IF o.opt = "WithToken" THEN [d EXCEPT !.token = o.token]
    ELSE IF o.opt = "WithInsecureSkipTLS" THEN [d EXCEPT !.insecureSkipTLS = o.insecure]
    ELSE [d EXCEPT !.caPath = o.caPath,
                   !.clientCertPath = o.clientCertPath,
                   !.clientKeyPath = o.clientKeyPath]

RECURSIVE ApplyOpts(_, _)
\* for _, opt := range opts { opt(vaultClient) }
ApplyOpts(d, opts) ==
    IF opts = <<>> THEN d ELSE ApplyOpts(ApplyOption(d, Head(opts)), Tail(opts))

\* Variants of NewClientErr, each with one plausible slip.
\* The token is checked before the address.
NewClientErr_TokenFirst(d) ==
    IF d.token = "" THEN ErrorsNew("token is required")
    ELSE IF d.address = "" THEN ErrorsNew("address is required")
    ELSE IF ~d.insecureSkipTLS /\ d.caPath = EmptyPath
         THEN ErrorsNew("CA certificate is required")
    ELSE IF (d.clientCertPath = EmptyPath) # (d.clientKeyPath = EmptyPath)
         THEN ErrorsNew("client certificate and key must be provided together")
    ELSE NilErr

\* The cert/key pairing is checked before the CA.
NewClientErr_PairBeforeCA(d) ==
    IF d.address = "" THEN ErrorsNew("address is required")
    ELSE IF d.token = "" THEN ErrorsNew("token is required")
    ELSE IF (d.clientCertPath = EmptyPath) # (d.clientKeyPath = EmptyPath)
         THEN ErrorsNew("client certificate and key must be provided together")
    ELSE IF ~d.insecureSkipTLS /\ d.caPath = EmptyPath
         THEN ErrorsNew("CA certificate is required")
    ELSE NilErr

\* Only a certificate without a key is rejected.
NewClientErr_CertOnly(d) ==
    IF d.address = "" THEN ErrorsNew("address is required")
    ELSE IF d.token = "" THEN ErrorsNew("token is required")
    ELSE IF ~d.insecureSkipTLS /\ d.caPath = EmptyPath
         THEN ErrorsNew("CA certificate is required")
    ELSE IF d.clientCertPath # EmptyPath /\ d.clientKeyPath = EmptyPath
         THEN ErrorsNew("client certificate and key must be provided together")
    ELSE NilErr

\* A client certificate pair stands in for the CA.
NewClientErr_PairReplacesCA(d) ==
    IF d.address = "" THEN ErrorsNew("address is required")
    ELSE IF d.token = "" THEN ErrorsNew("token is required")
    ELSE IF /\ ~d.insecureSkipTLS
            /\ d.caPath = EmptyPath
            /\ ~(d.clientCertPath # EmptyPath /\ d.clientKeyPath # EmptyPath)
         THEN ErrorsNew("CA certificate is required")
    ELSE IF (d.clientCertPath = EmptyPath) # (d.clientKeyPath = EmptyPath)
         THEN ErrorsNew("client certificate and key must be provided together")
    ELSE NilErr

\* The pairing check is left out.
NewClientErr_NoPairCheck(d) ==
    IF d.address = "" THEN ErrorsNew("address is required")
    ELSE IF d.token = "" THEN ErrorsNew("token is required")
    ELSE IF ~d.insecureSkipTLS /\ d.caPath = EmptyPath
         THEN ErrorsNew("CA certificate is required")
    ELSE NilErr

\* The checks of NewClient on the filled descriptor, in the code's order.
NewClientErr(d) ==
    IF d.address = "" THEN ErrorsNew("address is required")
    ELSE IF d.token = "" THEN ErrorsNew("token is required")
    ELSE IF ~d.insecureSkipTLS /\ d.caPath = EmptyPath
         THEN ErrorsNew("CA certificate is required")
    ELSE IF \/ (d.clientCertPath # EmptyPath /\ d.clientKeyPath = EmptyPath)
            \/ (d.clientCertPath = EmptyPath /\ d.clientKeyPath # EmptyPath)
         THEN ErrorsNew("client certificate and key must be provided together")
    ELSE NilErr

NewClient ==
    /\ vstage = "start"
    /\ \E opts \in OptSeqs :
         LET Return(d, e) ==
                 /\ vc' = d
                 /\ newRet' = [nil |-> e # NilErr, err |-> e]
                 /\ vstage' = IF e = NilErr THEN "ready" ELSE "failed"
             Check(d) == Return(d, NewClientErr(d))
         IN Check(ApplyOpts(ZeroClient, opts))
    /\ UNCHANGED <<fs, nextId, vhist, redisVars, fcall, main>>

\* Variant of validateAndResolvePath that hands back the path as it was given.
validateAndResolvePath_Unresolved(path, fileType, present) ==
    LET Stat(absPath) ==
            IF absPath \notin present
            THEN [path |-> EmptyPath,
                  err |-> Errorf("vault: %s file not found: %s",
                                 <<fileType>> \o path, NilErr)]
            ELSE [path |-> path, err |-> NilErr]
    IN Stat(FilepathAbs(path))

\* validateAndResolvePath: the absolute path, or the file-not-found error
\* naming the artifact kind and the resolved path.  present is the set of
\* absolute paths for which os.Stat does not report NotExist.
validateAndResolvePath(path, fileType, present) ==
    LET Stat(absPath) ==
            IF absPath \notin present
            THEN [path |-> EmptyPath,
                  err |-> Errorf("vault: %s file not found: %s",
                                 <<fileType>> \o absPath, NilErr)]
            ELSE [path |-> absPath, err |-> NilErr]
    IN Stat(FilepathAbs(path))

\* api.TLSConfig{Insecure: vc.insecureSkipTLS}
NewTLSConfig(d) ==
    [Insecure |-> d.insecureSkipTLS, CAPath |-> EmptyPath,
     ClientCert |-> EmptyPath, ClientKey |-> EmptyPath]

configureCA(d, present, tlsConfig) ==
    LET Resolved(r) ==
            IF r.err # NilErr THEN [err |-> r.err, tlsConfig |-> tlsConfig]
            ELSE [err |-> NilErr, tlsConfig |-> [tlsConfig EXCEPT !.CAPath = r.path]]
    IN IF d.caPath = EmptyPath THEN [err |-> NilErr, tlsConfig |-> tlsConfig]
       ELSE Resolved(validateAndResolvePath(d.caPath, "CA certificate", present))

\* Variant of configureClientCertificates that looks for the certificate
\* file before it checks that certificate and key come together.
configureClientCertificates_CertFirst(d, present, tlsConfig) ==
    LET hasCert == d.clientCertPath # EmptyPath
        hasKey == d.clientKeyPath # EmptyPath
        Key(c, k) ==
            IF k.err # NilErr THEN [err |-> k.err, tlsConfig |-> tlsConfig]
            ELSE [err |-> NilErr,
                  tlsConfig |-> [tlsConfig EXCEPT !.ClientCert = c.path,
                                                  !.ClientKey = k.path]]
        Cert(c) ==
            IF c.err # NilErr THEN [err |-> c.err, tlsConfig |-> tlsConfig]
            ELSE IF ~hasKey
            THEN [err |-> ErrorsNew("vault: client certificate and key must be provided together"),
                  tlsConfig |-> tlsConfig]
            ELSE Key(c, validateAndResolvePath(d.clientKeyPath, "client key", present))
    IN IF ~hasCert /\ ~hasKey THEN [err |-> NilErr, tlsConfig |-> tlsConfig]
       ELSE IF ~hasCert
       THEN [err |-> ErrorsNew("vault: client certificate and key must be provided together"),
             tlsConfig |-> tlsConfig]
       ELSE Cert(validateAndResolvePath(d.clientCertPath, "client certificate", present))

configureClientCertificates(d, present, tlsConfig) ==
    LET hasCert == d.clientCertPath # EmptyPath
        hasKey == d.clientKeyPath # EmptyPath
        Key(c, k) ==
            IF k.err # NilErr THEN [err |-> k.err, tlsConfig |-> tlsConfig]
            ELSE [err |-> NilErr,
                  tlsConfig |-> [tlsConfig EXCEPT !.ClientCert = c.path,
                                                  !.ClientKey = k.path]]
        Cert(c) ==
            IF c.err # NilErr THEN [err |-> c.err, tlsConfig |-> tlsConfig]
            ELSE Key(c, validateAndResolvePath(d.clientKeyPath, "client key", present))
    IN IF ~hasCert /\ ~hasKey THEN [err |-> NilErr, tlsConfig |-> tlsConfig]
       ELSE IF hasCert # hasKey
       THEN [err |-> ErrorsNew("vault: client certificate and key must be provided together"),
             tlsConfig |-> tlsConfig]
       ELSE Cert(validateAndResolvePath(d.clientCertPath, "client certificate", present))

\* Variant of shouldConfigureTLS that always asks for the TLS configuration.
shouldConfigureTLS_Always(d) == TRUE

shouldConfigureTLS(d) ==
    \/ d.insecureSkipTLS
    \/ d.caPath # EmptyPath
    \/ (d.clientCertPath # EmptyPath /\ d.clientKeyPath # EmptyPath)

\* Outcomes of the library calls made by Connect, chosen by the environment:
\* tls: config.ConfigureTLS succeeds; new: api.NewClient succeeds;
\* health: client.Sys().Health() succeeds.
ConnectEnvs == [tls : BOOLEAN, new : BOOLEAN, health : BOOLEAN]

LibErr(what) == ErrorsNew(what)

\* api.DefaultConfig() with config.Address set; TLS is <<>> while the
\* transport keeps the library defaults, else <<the applied TLSConfig>>.
DefaultConfig(d) == [Address |-> d.address, TLS |-> <<>>]

\* Variant of configureTLS that takes the client certificate step before
\* the CA step.
configureTLS_CertsFirst(d, present, config, env) ==
    LET CA(ca) ==
            IF ca.err # NilErr THEN [err |-> ca.err, config |-> config]
            ELSE IF ~shouldConfigureTLS(d) THEN [err |-> NilErr, config |-> config]
            ELSE IF ~env.tls
            THEN [err |-> Errorf("vault: error configuring TLS: %w", <<>>,
                                 LibErr("ConfigureTLS failed")),
                  config |-> config]
            ELSE [err |-> NilErr, config |-> [config EXCEPT !.TLS = <<ca.tlsConfig>>]]
        Certs(cc) ==
            IF cc.err # NilErr THEN [err |-> cc.err, config |-> config]
            ELSE CA(configureCA(d, present, cc.tlsConfig))
    IN Certs(configureClientCertificates(d, present, NewTLSConfig(d)))

configureTLS(d, present, config, env) ==
    LET Certs(cc) ==
            IF cc.err # NilErr THEN [err |-> cc.err, config |-> config]
            ELSE IF ~shouldConfigureTLS(d) THEN [err |-> NilErr, config |-> config]
            ELSE IF ~env.tls
            THEN [err |-> Errorf("vault: error configuring TLS: %w", <<>>,
                                 LibErr("ConfigureTLS failed")),
                  config |-> config]
            ELSE [err |-> NilErr, config |-> [config EXCEPT !.TLS = <<cc.tlsConfig>>]]
        CA(ca) ==
            IF ca.err # NilErr THEN [err |-> ca.err, config |-> config]
            ELSE Certs(configureClientCertificates(d, present, ca.tlsConfig))
    IN CA(configureCA(d, present, NewTLSConfig(d)))

\* createAPIClient: the new *api.Client (identity id) with the token set,
\* or the error.  config is what was handed to api.NewClient, if anything.
createAPIClient(d, present, id, env) ==
    LET TLS(t) ==
            IF t.err # NilErr THEN [client |-> NilClient, err |-> t.err, config |-> <<>>]
            ELSE IF ~env.new
            THEN [client |-> NilClient,
                  err |-> Errorf("vault: error creating client: %w", <<>>,
                                 LibErr("NewClient failed")),
                  config |-> <<t.config>>]
            ELSE [client |-> <<[id |-> id, config |-> t.config, token |-> d.token]>>,
                  err |-> NilErr, config |-> <<t.config>>]
    IN TLS(configureTLS(d, present, DefaultConfig(d), env))

verifyConnection(d, client, env) ==
    IF ~env.health
    THEN Errorf("vault: failed to connect to vault at %s: %w", <<d.address>>,
                LibErr("health check failed"))
    ELSE NilErr

\* Variant of Connect with an idempotence guard: a descriptor that already
\* holds a handle is left alone.
Connect_SkipWhenConnected(d, present, id, env) ==
    LET Verified(c, e) ==
            IF e # NilErr
            THEN [vc |-> d, err |-> e, health |-> 1, created |-> 1, config |-> c.config]
            ELSE [vc |-> [d EXCEPT !.client = c.client], err |-> NilErr,
                  health |-> 1, created |-> 1, config |-> c.config]
        Created(c) ==
            IF c.err # NilErr
            THEN [vc |-> d, err |-> c.err, health |-> 0, created |-> 0, config |-> c.config]
            ELSE Verified(c, verifyConnection(d, c.client, env))
    IN IF d.client # NilClient
       THEN [vc |-> d, err |-> NilErr, health |-> 0, created |-> 0, config |-> <<>>]
       ELSE Created(createAPIClient(d, present, id, env))

\* Variant of Connect that stores the new client before the health check.
Connect_StoreBeforeVerify(d, present, id, env) ==
    LET Verified(c, e) ==
            [vc |-> [d EXCEPT !.client = c.client], err |-> e,
             health |-> 1, created |-> 1, config |-> c.config]
        Created(c) ==
            IF c.err # NilErr
            THEN [vc |-> d, err |-> c.err, health |-> 0, created |-> 0, config |-> c.config]
            ELSE Verified(c, verifyConnection(d, c.client, env))
    IN Created(createAPIClient(d, present, id, env))

\* Client.Connect on descriptor d: the descriptor afterwards, the returned
\* error, the number of health checks made and of api clients created.
Connect(d, present, id, env) ==
    LET Verified(c, e) ==
            IF e # NilErr
            THEN [vc |-> d, err |-> e, health |-> 1, created |-> 1, config |-> c.config]
            ELSE [vc |-> [d EXCEPT !.client = c.client], err |-> NilErr,
                  health |-> 1, created |-> 1, config |-> c.config]
        Created(c) ==
            IF c.err # NilErr
            THEN [vc |-> d, err |-> c.err, health |-> 0, created |-> 0, config |-> c.config]
            ELSE Verified(c, verifyConnection(d, c.client, env))
    IN Created(createAPIClient(d, present, id, env))

\* Contexts a caller can pass.
Contexts == {"background", "canceled", "deadlineExceeded"}

CtxDone(ctx) == ctx # "background"

CtxErr(ctx) ==
    IF ctx = "canceled" THEN ErrorsNew("context canceled")
    ELSE IF ctx = "deadlineExceeded" THEN ErrorsNew("context deadline exceeded")
    ELSE NilErr

\* Variant of Stop that examines the context before the handle.
Stop_CtxFirst(d, ctx) ==
    IF CtxDone(ctx) THEN [vc |-> [d EXCEPT !.client = NilClient], err |-> CtxErr(ctx)]
    ELSE [vc |-> [d EXCEPT !.client = NilClient], err |-> NilErr]

\* Variant of Stop that returns on a finished context before releasing.
Stop_KeepOnCancel(d, ctx) ==
    IF d.client = NilClient THEN [vc |-> d, err |-> NilErr]
    ELSE IF CtxDone(ctx) THEN [vc |-> d, err |-> CtxErr(ctx)]
    ELSE [vc |-> [d EXCEPT !.client = NilClient], err |-> NilErr]

\* Client.Stop on descriptor d with context ctx.
Stop(d, ctx) ==
    IF d.client = NilClient THEN [vc |-> d, err |-> NilErr]
    ELSE [vc |-> [d EXCEPT !.client = NilClient],
          err |-> IF CtxDone(ctx) THEN CtxErr(ctx) ELSE NilErr]

ClientConnect ==
    /\ vstage = "ready"
    /\ Len(vhist) < MaxOps
    /\ \E env \in ConnectEnvs :
         LET Return(r) ==
                 /\ vc' = r.vc
                 /\ nextId' = nextId + r.created
                 /\ vhist' = Append(vhist,
                        [op |-> "Connect", ctx |-> "background", pre |-> vc.client,
                         post |-> r.vc.client, err |-> r.err, health |-> r.health,
                         config |-> r.config])
         IN Return(Connect(vc, fs, nextId, env))
    /\ UNCHANGED <<vstage, newRet, fs, redisVars, fcall, main>>

ClientStop ==
    /\ vstage = "ready"
    /\ Len(vhist) < MaxOps
    /\ \E ctx \in Contexts :
         LET Return(r) ==
                 /\ vc' = r.vc
                 /\ vhist' = Append(vhist,
                        [op |-> "Stop", ctx |-> ctx, pre |-> vc.client,
                         post |-> r.vc.client, err |-> r.err, health |-> 0,
                         config |-> <<>>])
         IN Return(Stop(vc, ctx))
    /\ UNCHANGED <<vstage, newRet, fs, nextId, redisVars, fcall, main>>

(***************************************************************************)
(* redis.Service                                                           *)
(***************************************************************************)
RedisTypeSingle == "single"
RedisTypeCluster == "cluster"

NilCfg == <<>>

\* *config.Redis values handed to WithCfg (a pointer: <<>> is nil).
RedisConfigs ==
    { <<[Type |-> RedisTypeSingle, Host |-> "localhost", Port |-> 6379, Addrs |-> <<>>]>>,
      <<[Type |-> RedisTypeCluster, Host |-> "", Port |-> 0, Addrs |-> <<"localhost:7000">>]>>,
      <<[Type |-> "unknown", Host |-> "", Port |-> 0, Addrs |-> <<>>]>> }

ZeroService == [cfg |-> NilCfg, client |-> NilClient, err |-> NilErr]

WithCfg(cfg) == [opt |-> "WithCfg", cfg |-> cfg]

ServiceOptions == {WithCfg(c) : c \in RedisConfigs \cup {NilCfg}}

ServiceOptSeqs == UNION {[1..n -> ServiceOptions] : n \in 0..MaxRedisOpts}

RECURSIVE ApplyServiceOpts_FirstWins(_, _)
\* Variant of the option loop in which a configuration, once set, stays.
ApplyServiceOpts_FirstWins(s, opts) ==
    IF opts = <<>> THEN s
    ELSE ApplyServiceOpts_FirstWins(
             IF s.cfg = NilCfg THEN [s EXCEPT !.cfg = Head(opts).cfg] ELSE s,
             Tail(opts))

RECURSIVE ApplyServiceOpts(_, _)
ApplyServiceOpts(s, opts) ==
    IF opts = <<>> THEN s
    ELSE ApplyServiceOpts([s EXCEPT !.cfg = Head(opts).cfg], Tail(opts))

\* The check of New on the filled Service.
NewErr(s) == IF s.cfg = NilCfg THEN Errorf("cfg is required", <<>>, NilErr) ELSE NilErr

Callers == 1..NumCallers

\* No function is under examination.
NoFcall == [fn |-> "none", args |-> <<>>, res |-> <<>>]

\* The process before main's first statement.
NotStarted ==
    [pc |-> "LoadConfig", exit |-> "running", config |-> <<>>,
     sigReg |-> FALSE, signalled |-> FALSE, notifyCtx |-> "none", task |-> "none",
     defers |-> <<>>, log |-> <<>>, waited |-> FALSE]

NoCall ==
    [op |-> "none", ctx |-> "background", client |-> NilClient, ran |-> FALSE,
     seen |-> NilClient, closed |-> FALSE, closeCtx |-> "background",
     closeRes |-> NilErr, returned |-> FALSE, ret |-> NilErr]

\* New(opts...): the Service it fills and what it returns.
NewWith(opts) ==
    LET Return(s, e) ==
            /\ svc' = s
            /\ rnewRet' = [nil |-> e # NilErr, err |-> e]
            /\ rstage' = IF e = NilErr THEN "ready" ELSE "failed"
        Check(s) == Return(s, NewErr(s))
    IN /\ Check(ApplyServiceOpts(ZeroService, opts))
       /\ UNCHANGED <<once, mu, pc, call, calls, clients, rets, vaultVars>>

New ==
    /\ rstage = "start"
    /\ \E opts \in ServiceOptSeqs : NewWith(opts)
    /\ UNCHANGED <<fcall, main>>

\* A caller enters Service.Connect(ctx).
ConnectCall(self) ==
    /\ rstage = "ready"
    /\ pc[self] = "idle"
    /\ calls < MaxCalls
    /\ \E ctx \in Contexts :
         call' = [call EXCEPT ![self] = [NoCall EXCEPT !.op = "Connect", !.ctx = ctx]]
    /\ calls' = calls + 1
    /\ pc' = [pc EXCEPT ![self] = "onceDo"]
    /\ UNCHANGED <<rstage, rnewRet, svc, once, mu, clients, rets, vaultVars, fcall, main>>

\* Variant of OnceDo without the gate: a caller arriving while the body
\* runs, runs it too.
OnceDo_NoGate(self) ==
    /\ pc[self] = "onceDo"
    /\ \/ /\ once \in {"fresh", "running"}
          /\ once' = "running"
          /\ call' = [call EXCEPT ![self].ran = TRUE]
          /\ pc' = [pc EXCEPT ![self] = "lock"]
       \/ /\ once = "done"
          /\ pc' = [pc EXCEPT ![self] = "connectRet"]
          /\ UNCHANGED <<once, call>>
    /\ UNCHANGED <<rstage, rnewRet, svc, mu, calls, clients, rets, vaultVars, fcall, main>>

\* Variant of OnceDo that runs the body again after a recorded failure.
OnceDo_RetryOnError(self) ==
    /\ pc[self] = "onceDo"
    /\ \/ /\ once = "fresh" \/ (once = "done" /\ svc.err # NilErr)
          /\ once' = "running"
          /\ call' = [call EXCEPT ![self].ran = TRUE]
          /\ pc' = [pc EXCEPT ![self] = "lock"]
       \/ /\ once = "done"
          /\ svc.err = NilErr
          /\ pc' = [pc EXCEPT ![self] = "connectRet"]
          /\ UNCHANGED <<once, call>>
    /\ UNCHANGED <<rstage, rnewRet, svc, mu, calls, clients, rets, vaultVars, fcall, main>>

\* s.once.Do(f): the first caller runs f; a caller arriving while f runs
\* blocks until it is done; a caller arriving afterwards skips f.
OnceDo(self) ==
    /\ pc[self] = "onceDo"
    /\ \/ /\ once = "fresh"
          /\ once' = "running"
          /\ call' = [call EXCEPT ![self].ran = TRUE]
          /\ pc' = [pc EXCEPT ![self] = "lock"]
       \/ /\ once = "done"
          /\ pc' = [pc EXCEPT ![self] = "connectRet"]
          /\ UNCHANGED <<once, call>>
    /\ UNCHANGED <<rstage, rnewRet, svc, mu, calls, clients, rets, vaultVars, fcall, main>>

\* s.mu.Lock() at the top of the connect body.
ConnectLock(self) ==
    /\ pc[self] = "lock"
    /\ mu = 0
    /\ mu' = self
    /\ pc' = [pc EXCEPT ![self] = "switch"]
    /\ UNCHANGED <<rstage, rnewRet, svc, once, call, calls, clients, rets, vaultVars, fcall, main>>

\* A concrete client as redis.NewSingleClient / NewClusterClient returns it.
NewConcreteClient(kind) ==
    [kind |-> kind, state |-> "new", connects |-> 0, connectCtx |-> <<>>,
     closes |-> 0]

\* Variant of ConnectSwitch whose switch falls back to a single-node client
\* for a type it does not know.
ConnectSwitch_DefaultSingle(self) ==
    /\ pc[self] = "switch"
    /\ LET type == svc.cfg[1].Type IN
       \/ /\ clients' = Append(clients,
                  NewConcreteClient(IF type = RedisTypeCluster THEN type
                                    ELSE RedisTypeSingle))
          /\ call' = [call EXCEPT ![self].client = <<Len(clients) + 1>>]
          /\ svc' = [svc EXCEPT !.err = NilErr]
          /\ pc' = [pc EXCEPT ![self] = "connect"]
       \/ /\ svc' = [svc EXCEPT !.err =
                Errorf("error creating redis client (%s): %w", <<type>>,
                       LibErr("constructor failed"))]
          /\ pc' = [pc EXCEPT ![self] = "unlock"]
          /\ UNCHANGED <<clients, call>>
    /\ UNCHANGED <<rstage, rnewRet, once, mu, calls, rets, vaultVars, fcall, main>>

\* Variant of ConnectSwitch whose error paths leave the body without the
\* deferred Unlock.
ConnectSwitch_LeakLockOnError(self) ==
    /\ pc[self] = "switch"
    /\ LET type == svc.cfg[1].Type IN
       \/ /\ type \in {RedisTypeSingle, RedisTypeCluster}
          /\ clients' = Append(clients, NewConcreteClient(type))
          /\ call' = [call EXCEPT ![self].client = <<Len(clients) + 1>>]
          /\ svc' = [svc EXCEPT !.err = NilErr]
          /\ pc' = [pc EXCEPT ![self] = "connect"]
       \/ /\ type \in {RedisTypeSingle, RedisTypeCluster}
          /\ svc' = [svc EXCEPT !.err =
                Errorf("error creating redis client (%s): %w", <<type>>,
                       LibErr("constructor failed"))]
          /\ pc' = [pc EXCEPT ![self] = "onceDone"]
          /\ UNCHANGED <<clients, call>>
       \/ /\ type \notin {RedisTypeSingle, RedisTypeCluster}
          /\ svc' = [svc EXCEPT !.err = Errorf("unknown redis type: %s", <<type>>, NilErr)]
          /\ pc' = [pc EXCEPT ![self] = "onceDone"]
          /\ UNCHANGED <<clients, call>>
    /\ UNCHANGED <<rstage, rnewRet, once, mu, calls, rets, vaultVars, fcall, main>>

\* switch s.cfg.Type: build the concrete client, or record the error.
ConnectSwitch(self) ==
    /\ pc[self] = "switch"
    /\ LET type == svc.cfg[1].Type IN
       \/ /\ type \in {RedisTypeSingle, RedisTypeCluster}
          /\ clients' = Append(clients, NewConcreteClient(type))
          /\ call' = [call EXCEPT ![self].client = <<Len(clients) + 1>>]
          /\ svc' = [svc EXCEPT !.err = NilErr]
          /\ pc' = [pc EXCEPT ![self] = "connect"]
       \/ /\ type \in {RedisTypeSingle, RedisTypeCluster}
          /\ svc' = [svc EXCEPT !.err =
                Errorf("error creating redis client (%s): %w", <<type>>,
                       LibErr("constructor failed"))]
          /\ pc' = [pc EXCEPT ![self] = "unlock"]
          /\ UNCHANGED <<clients, call>>
       \/ /\ type \notin {RedisTypeSingle, RedisTypeCluster}
          /\ svc' = [svc EXCEPT !.err = Errorf("unknown redis type: %s", <<type>>, NilErr)]
          /\ pc' = [pc EXCEPT ![self] = "unlock"]
          /\ UNCHANGED <<clients, call>>
    /\ UNCHANGED <<rstage, rnewRet, once, mu, calls, rets, vaultVars, fcall, main>>

\* client.Connect(ctx) is invoked on the freshly built client.
ConnectInvoke(self) ==
    /\ pc[self] = "connect"
    /\ LET id == call[self].client[1] IN
       clients' = [clients EXCEPT ![id].state = "connecting",
                                  ![id].connects = @ + 1,
                                  ![id].connectCtx = <<[owner |-> self, ctx |-> call[self].ctx]>>]
    /\ pc' = [pc EXCEPT ![self] = "connecting"]
    /\ UNCHANGED <<rstage, rnewRet, svc, once, mu, call, calls, rets, vaultVars, fcall, main>>

\* client.Connect(ctx) returns: the error is wrapped and recorded, or the
\* client becomes the service's handle.
ConnectFinish(self) ==
    /\ pc[self] = "connecting"
    /\ LET id == call[self].client[1] IN
       \/ /\ clients' = [clients EXCEPT ![id].state = "connected"]
          /\ svc' = [svc EXCEPT !.err = NilErr, !.client = <<id>>]
       \/ /\ clients' = [clients EXCEPT ![id].state = "failed"]
          /\ svc' = [svc EXCEPT !.err =
                Errorf("error connecting to redis: %w", <<>>, LibErr("connect failed"))]
    /\ pc' = [pc EXCEPT ![self] = "unlock"]
    /\ UNCHANGED <<rstage, rnewRet, once, mu, call, calls, rets, vaultVars, fcall, main>>

\* The deferred s.mu.Unlock() as the connect body returns.
ConnectUnlock(self) ==
    /\ pc[self] = "unlock"
    /\ mu' = 0
    /\ pc' = [pc EXCEPT ![self] = "onceDone"]
    /\ UNCHANGED <<rstage, rnewRet, svc, once, call, calls, clients, rets, vaultVars, fcall, main>>

\* sync.Once marks the gate done after the body returned.
OnceDone(self) ==
    /\ pc[self] = "onceDone"
    /\ once' = "done"
    /\ pc' = [pc EXCEPT ![self] = "connectRet"]
    /\ UNCHANGED <<rstage, rnewRet, svc, mu, call, calls, clients, rets, vaultVars, fcall, main>>

\* Variant of ConnectReturn in which a caller that did not run the body
\* reports its own finished context.
ConnectReturn_CtxAware(self) ==
    /\ pc[self] = "connectRet"
    /\ LET Return(e) ==
               /\ call' = [call EXCEPT ![self].returned = TRUE, ![self].ret = e]
               /\ rets' = rets \cup {e}
       IN Return(IF ~call[self].ran /\ CtxDone(call[self].ctx)
                 THEN CtxErr(call[self].ctx) ELSE svc.err)
    /\ pc' = [pc EXCEPT ![self] = "idle"]
    /\ UNCHANGED <<rstage, rnewRet, svc, once, mu, calls, clients, vaultVars, fcall, main>>

\* return s.err
ConnectReturn(self) ==
    /\ pc[self] = "connectRet"
    /\ call' = [call EXCEPT ![self].returned = TRUE, ![self].ret = svc.err]
    /\ rets' = rets \cup {svc.err}
    /\ pc' = [pc EXCEPT ![self] = "idle"]
    /\ UNCHANGED <<rstage, rnewRet, svc, once, mu, calls, clients, vaultVars, fcall, main>>

\* A caller enters Service.Stop(ctx) (the log line reads only s.cfg).
StopCall(self) ==
    /\ rstage = "ready"
    /\ pc[self] = "idle"
    /\ calls < MaxCalls
    /\ \E ctx \in Contexts :
         call' = [call EXCEPT ![self] = [NoCall EXCEPT !.op = "Stop", !.ctx = ctx]]
    /\ calls' = calls + 1
    /\ pc' = [pc EXCEPT ![self] = "stopLock"]
    /\ UNCHANGED <<rstage, rnewRet, svc, once, mu, clients, rets, vaultVars, fcall, main>>

\* Variant of StopLock that goes on without waiting for the mutex.
StopLock_NoWait(self) ==
    /\ pc[self] = "stopLock"
    /\ mu' = self
    /\ pc' = [pc EXCEPT ![self] = "stopCheck"]
    /\ UNCHANGED <<rstage, rnewRet, svc, once, call, calls, clients, rets, vaultVars, fcall, main>>

\* s.mu.Lock() in Stop.
StopLock(self) ==
    /\ pc[self] = "stopLock"
    /\ mu = 0
    /\ mu' = self
    /\ pc' = [pc EXCEPT ![self] = "stopCheck"]
    /\ UNCHANGED <<rstage, rnewRet, svc, once, call, calls, clients, rets, vaultVars, fcall, main>>

\* Variant of StopCheck that reports a missing connection as an error.
StopCheck_ErrOnNil(self) ==
    /\ pc[self] = "stopCheck"
    /\ \/ /\ svc.client = NilClient
          /\ call' = [call EXCEPT ![self].seen = NilClient,
                                  ![self].returned = TRUE,
                                  ![self].ret = ErrorsNew("redis is not connected")]
          /\ mu' = 0
          /\ pc' = [pc EXCEPT ![self] = "idle"]
          /\ UNCHANGED clients
       \/ /\ svc.client # NilClient
          /\ call' = [call EXCEPT ![self].seen = svc.client,
                                  ![self].closed = TRUE,
                                  ![self].closeCtx = call[self].ctx]
          /\ clients' = [clients EXCEPT ![svc.client[1]].closes = @ + 1]
          /\ pc' = [pc EXCEPT ![self] = "closing"]
          /\ UNCHANGED mu
    /\ UNCHANGED <<rstage, rnewRet, svc, once, calls, rets, vaultVars, fcall, main>>

\* if s.client == nil { return nil }; otherwise s.client.Close(ctx) is invoked.
StopCheck(self) ==
    /\ pc[self] = "stopCheck"
    /\ \/ /\ svc.client = NilClient
          /\ call' = [call EXCEPT ![self].seen = NilClient,
                                  ![self].returned = TRUE,
                                  ![self].ret = NilErr]
          /\ mu' = 0
          /\ pc' = [pc EXCEPT ![self] = "idle"]
          /\ UNCHANGED clients
       \/ /\ svc.client # NilClient
          /\ call' = [call EXCEPT ![self].seen = svc.client,
                                  ![self].closed = TRUE,
                                  ![self].closeCtx = call[self].ctx]
          /\ clients' = [clients EXCEPT ![svc.client[1]].closes = @ + 1]
          /\ pc' = [pc EXCEPT ![self] = "closing"]
          /\ UNCHANGED mu
    /\ UNCHANGED <<rstage, rnewRet, svc, once, calls, rets, vaultVars, fcall, main>>

\* Variant of StopFinish that wraps the error of Close.
StopFinish_Wrapped(self) ==
    /\ pc[self] = "closing"
    /\ \E e \in {NilErr, LibErr("close error")} :
         call' = [call EXCEPT ![self].closeRes = e,
                              ![self].returned = TRUE,
                              ![self].ret = IF e = NilErr THEN NilErr
                                            ELSE Errorf("error closing redis: %w", <<>>, e)]
    /\ mu' = 0
    /\ pc' = [pc EXCEPT ![self] = "idle"]
    /\ UNCHANGED <<rstage, rnewRet, svc, once, calls, clients, rets, vaultVars, fcall, main>>

\* Variant of StopFinish that clears the handle once Close has returned.
StopFinish_ClearHandle(self) ==
    /\ pc[self] = "closing"
    /\ \E e \in {NilErr, LibErr("close error")} :
         call' = [call EXCEPT ![self].closeRes = e,
                              ![self].returned = TRUE,
                              ![self].ret = e]
    /\ svc' = [svc EXCEPT !.client = NilClient]
    /\ mu' = 0
    /\ pc' = [pc EXCEPT ![self] = "idle"]
    /\ UNCHANGED <<rstage, rnewRet, once, calls, clients, rets, vaultVars, fcall, main>>

\* Variant of StopFinish that re-arms the connect gate.
StopFinish_ResetGate(self) ==
    /\ pc[self] = "closing"
    /\ \E e \in {NilErr, LibErr("close error")} :
         call' = [call EXCEPT ![self].closeRes = e,
                              ![self].returned = TRUE,
                              ![self].ret = e]
    /\ once' = IF once = "done" THEN "fresh" ELSE once
    /\ mu' = 0
    /\ pc' = [pc EXCEPT ![self] = "idle"]
    /\ UNCHANGED <<rstage, rnewRet, svc, calls, clients, rets, vaultVars, fcall, main>>

\* s.client.Close(ctx) returns; Stop returns its result and the deferred
\* s.mu.Unlock() runs.
StopFinish(self) ==
    /\ pc[self] = "closing"
    /\ \E e \in {NilErr, LibErr("close error")} :
         call' = [call EXCEPT ![self].closeRes = e,
                              ![self].returned = TRUE,
                              ![self].ret = e]
    /\ mu' = 0
    /\ pc' = [pc EXCEPT ![self] = "idle"]
    /\ UNCHANGED <<rstage, rnewRet, svc, once, calls, clients, rets, vaultVars, fcall, main>>

(***************************************************************************)
(* Specifications                                                          *)
(***************************************************************************)
VaultStart ==
    /\ vstage = "start"
    /\ vc = ZeroClient
    /\ newRet = [nil |-> TRUE, err |-> NilErr]
    /\ nextId = 1
    /\ vhist = <<>>

RedisStart ==
    /\ rstage = "start"
    /\ rnewRet = [nil |-> TRUE, err |-> NilErr]
    /\ svc = ZeroService
    /\ once = "fresh"
    /\ mu = 0
    /\ pc = [c \in Callers |-> "idle"]
    /\ call = [c \in Callers |-> NoCall]
    /\ calls = 0
    /\ clients = <<>>
    /\ rets = {}

VaultInit ==
    /\ VaultStart
    /\ fs \in SUBSET FileUniverse
    /\ RedisStart
    /\ fcall = NoFcall
    /\ main = NotStarted

VaultNext == NewClient \/ ClientConnect \/ ClientStop

VaultSpec == VaultInit /\ [][VaultNext]_vars

RedisInit ==
    /\ RedisStart
    /\ VaultStart
    /\ fs = {}
    /\ fcall = NoFcall
    /\ main = NotStarted

RedisNext ==
    \/ New
    \/ \E self \in Callers :
          \/ ConnectCall(self) \/ OnceDo(self) \/ ConnectLock(self)
          \/ ConnectSwitch(self) \/ ConnectInvoke(self) \/ ConnectFinish(self)
          \/ ConnectUnlock(self) \/ OnceDone(self) \/ ConnectReturn(self)
          \/ StopCall(self) \/ StopLock(self) \/ StopCheck(self) \/ StopFinish(self)

RedisSpec == RedisInit /\ [][RedisNext]_vars

\* Every step of a call that has started is eventually taken when it stays
\* possible: goroutines keep running, the constructor, the underlying
\* Connect and Close return, and a free mutex is handed to a waiter.  The
\* start of a call (ConnectCall, StopCall) is left to the callers.
RedisProgress(self) ==
    \/ OnceDo(self) \/ ConnectLock(self)
    \/ ConnectSwitch(self) \/ ConnectInvoke(self) \/ ConnectFinish(self)
    \/ ConnectUnlock(self) \/ OnceDone(self) \/ ConnectReturn(self)
    \/ StopLock(self) \/ StopCheck(self) \/ StopFinish(self)

RedisFairSpec ==
    /\ RedisInit
    /\ [][RedisNext]_vars
    /\ \A self \in Callers : WF_vars(RedisProgress(self))

(***************************************************************************)
(* validateAndResolvePath called on its own, as the package's tests do:    *)
(* the path, the artifact kind and the files that exist are drawn at the   *)
(* start.                                                                  *)
(***************************************************************************)
PathArgs ==
    { <<"/", "etc", "vault", "ca.pem">>,
      <<"/", "etc", "..", "etc", "vault", "ca.pem">>,
      <<"/", "nonexistent", "path", "to", "file.pem">>,
      <<"ca.pem">>,
      <<".", "ca.pem">>,
      <<"certs", "client.pem">>,
      <<"certs", "..", "ca.pem">>,
      <<"..", "app", "certs", "client.pem">> }

FileTypes == {"CA certificate", "client certificate", "client key"}

\* The files that may exist.
PathFiles ==
    { <<"/", "etc", "vault", "ca.pem">>,
      <<"/", "app", "ca.pem">>,
      <<"/", "app", "certs", "client.pem">> }

PathInit ==
    /\ VaultStart
    /\ RedisStart
    /\ fs \in SUBSET PathFiles
    /\ fcall \in {[fn |-> "validateAndResolvePath",
                    args |-> [path |-> p, fileType |-> t], res |-> <<>>] :
                      p \in PathArgs, t \in FileTypes}
    /\ main = NotStarted

CallValidateAndResolvePath ==
    /\ fcall.fn = "validateAndResolvePath"
    /\ fcall.res = <<>>
    /\ fcall' = [fcall EXCEPT !.res =
                    <<validateAndResolvePath(fcall.args.path, fcall.args.fileType, fs)>>]
    /\ UNCHANGED <<vaultVars, redisVars, main>>

PathSpec == PathInit /\ [][CallValidateAndResolvePath]_vars

(***************************************************************************)
(* configureTLS called on its own on a Client written as a struct literal, *)
(* as the package's tests do: the TLS fields are not restricted by the     *)
(* checks of NewClient.                                                    *)
(***************************************************************************)
ClientLiterals ==
    {[ZeroClient EXCEPT !.insecureSkipTLS = t[1], !.caPath = t[2],
                        !.clientCertPath = t[3], !.clientKeyPath = t[4]] :
        t \in BOOLEAN \X CaPaths \X CertPaths \X KeyPaths}

TLSInit ==
    /\ vstage = "literal"
    /\ vc \in ClientLiterals
    /\ newRet = [nil |-> TRUE, err |-> NilErr]
    /\ nextId = 1
    /\ vhist = <<>>
    /\ fs \in SUBSET FileUniverse
    /\ RedisStart
    /\ fcall = [fn |-> "configureTLS", args |-> <<>>, res |-> <<>>]
    /\ main = NotStarted

\* config := api.DefaultConfig(); err := client.configureTLS(config)
CallConfigureTLS ==
    /\ fcall.fn = "configureTLS"
    /\ fcall.res = <<>>
    /\ \E env \in ConnectEnvs :
          fcall' = [fcall EXCEPT !.args = <<env>>,
                                 !.res = <<configureTLS(vc, fs, DefaultConfig(vc), env)>>]
    /\ UNCHANGED <<vaultVars, redisVars, main>>

TLSSpec == TLSInit /\ [][CallConfigureTLS]_vars

(***************************************************************************)
(* redis.New called on its own: the options are drawn at the start.        *)
(***************************************************************************)
NewInit ==
    /\ RedisStart
    /\ VaultStart
    /\ fs = {}
    /\ fcall \in {[fn |-> "New", args |-> opts, res |-> <<>>] : opts \in ServiceOptSeqs}
    /\ main = NotStarted

\* got, err := New(opts...)
CallNew ==
    /\ fcall.fn = "New"
    /\ fcall.res = <<>>
    /\ rstage = "start"
    /\ NewWith(fcall.args)
    /\ fcall' = [fcall EXCEPT !.res = <<rnewRet'>>]
    /\ UNCHANGED main

NewSpec == NewInit /\ [][CallNew]_vars

(***************************************************************************)
(* config: the validation of the Redis section in LoadConfig.  The file    *)
(* has been read and parsed; the other sections are valid.                 *)
(***************************************************************************)
MinPort == 1024
MaxPort == 65535

\* Values the YAML file can give the Redis section.
RedisTypes == {RedisTypeSingle, RedisTypeCluster, "sentinel", ""}
RedisHosts == {"", "localhost", "bad host"}
RedisPorts == {0, 80, 6379}
RedisAddrs ==
    {<<>>, <<"localhost:7000">>, <<"localhost:7000", "localhost:7001">>, <<"localhost">>}

RedisSections ==
    [Type : RedisTypes, Host : RedisHosts, Port : RedisPorts, Addrs : RedisAddrs]

\* The validator's "hostname" and "hostname_port" rules on the drawn values.
IsHostname(h) == h \in {"localhost"}
IsHostnamePort(a) == a \in {"localhost:7000", "localhost:7001"}

\* validate.Struct on the Redis section: the rules of its struct tags.
validateStruct(cfg) ==
    IF /\ cfg.Type \in {RedisTypeSingle, RedisTypeCluster}
       /\ (cfg.Host = "" \/ IsHostname(cfg.Host))
       /\ (cfg.Port = 0 \/ (cfg.Port >= MinPort /\ cfg.Port <= MaxPort))
       /\ \A i \in 1..Len(cfg.Addrs) : IsHostnamePort(cfg.Addrs[i])
    THEN NilErr
    ELSE LibErr("validation failed")

validateRedisSingleConfig(cfg) ==
    IF cfg.Host = "" \/ cfg.Port = 0
    THEN Errorf("config: host and port are required for single redis", <<>>, NilErr)
    ELSE IF Len(cfg.Addrs) > 0
    THEN Errorf("config: addrs are not allowed for single redis", <<>>, NilErr)
    ELSE NilErr

\* Variant of validateRedisClusterConfig that objects only to host and port
\* given together.
validateRedisClusterConfig_HostAndPort(cfg) ==
    IF Len(cfg.Addrs) = 0
    THEN Errorf("config: addrs are required for cluster redis", <<>>, NilErr)
    ELSE IF cfg.Host # "" /\ cfg.Port # 0
    THEN Errorf("config: host and port are not allowed for cluster redis", <<>>, NilErr)
    ELSE NilErr

validateRedisClusterConfig(cfg) ==
    IF Len(cfg.Addrs) = 0
    THEN Errorf("config: addrs are required for cluster redis", <<>>, NilErr)
    ELSE IF cfg.Host # "" \/ cfg.Port # 0
    THEN Errorf("config: host and port are not allowed for cluster redis", <<>>, NilErr)
    ELSE NilErr

\* No default branch: any other type passes.
validateRedisConfig(cfg) ==
    IF cfg.Type = RedisTypeSingle THEN validateRedisSingleConfig(cfg)
    ELSE IF cfg.Type = RedisTypeCluster THEN validateRedisClusterConfig(cfg)
    ELSE NilErr

\* The two validation steps of LoadConfig.  redis is <<>> when
\* validateRedisConfig was not reached, else <<what it returned>>.
LoadConfig(cfg) ==
    LET Redis(e) ==
            [redis |-> <<e>>,
             err |-> IF e # NilErr
                     THEN Errorf("config: error validate redis: %w", <<>>, e)
                     ELSE NilErr]
        Struct(e) ==
            IF e # NilErr
            THEN [redis |-> <<>>,
                  err |-> Errorf("config: error validate: %w", <<>>, e)]
            ELSE Redis(validateRedisConfig(cfg))
    IN Struct(validateStruct(cfg))

ConfigInit ==
    /\ VaultStart
    /\ RedisStart
    /\ fs = {}
    /\ fcall \in {[fn |-> "LoadConfig", args |-> cfg, res |-> <<>>] : cfg \in RedisSections}
    /\ main = NotStarted

CallLoadConfig ==
    /\ fcall.fn = "LoadConfig"
    /\ fcall.res = <<>>
    /\ fcall' = [fcall EXCEPT !.res = <<LoadConfig(fcall.args)>>]
    /\ UNCHANGED <<vaultVars, redisVars, main>>

ConfigSpec == ConfigInit /\ [][CallLoadConfig]_vars

(***************************************************************************)
(* auth.New (internal/service/auth/service.go): the options are drawn at   *)
(* the start.                                                              *)
(***************************************************************************)
MaxAuthOpts == 3    \* options passed to auth.New

\* &service{}
AuthZeroService == [updateKeyInterval |-> 0, vaultClient |-> NilClient]

\* time.Duration values and vaultClient values (nil or a client).
Intervals == {-1, 0, 1}
VaultClients == {NilClient, <<"mockVaultClient">>}

WithUpdateKeyInterval(interval) == [opt |-> "WithUpdateKeyInterval", interval |-> interval]
WithVaultClient(client) == [opt |-> "WithVaultClient", client |-> client]

AuthOptions ==
    {WithUpdateKeyInterval(i) : i \in Intervals}
    \cup {WithVaultClient(c) : c \in VaultClients}

AuthOptSeqs == UNION {[1..n -> AuthOptions] : n \in 0..MaxAuthOpts}

RECURSIVE ApplyAuthOpts(_, _)
\* for _, opt := range opts { opt(s) }
ApplyAuthOpts(s, opts) ==
    IF opts = <<>> THEN s
    ELSE ApplyAuthOpts(
             IF Head(opts).opt = "WithUpdateKeyInterval"
             THEN [s EXCEPT !.updateKeyInterval = Head(opts).interval]
             ELSE [s EXCEPT !.vaultClient = Head(opts).client],
             Tail(opts))

\* Variant of AuthNew that checks the vault client before the interval.
AuthNew_ClientFirst(opts) ==
    LET Check(s) ==
            IF s.vaultClient = NilClient
            THEN [service |-> <<>>, err |-> ErrorsNew("vault client is required")]
            ELSE IF s.updateKeyInterval = 0
            THEN [service |-> <<>>, err |-> ErrorsNew("update key interval is required")]
            ELSE [service |-> <<s>>, err |-> NilErr]
    IN Check(ApplyAuthOpts(AuthZeroService, opts))

\* auth.New(opts...): the returned *service (<<>> is nil) and error.
AuthNew(opts) ==
    LET Check(s) ==
            IF s.updateKeyInterval = 0
            THEN [service |-> <<>>, err |-> ErrorsNew("update key interval is required")]
            ELSE IF s.vaultClient = NilClient
            THEN [service |-> <<>>, err |-> ErrorsNew("vault client is required")]
            ELSE [service |-> <<s>>, err |-> NilErr]
    IN Check(ApplyAuthOpts(AuthZeroService, opts))

AuthInit ==
    /\ VaultStart
    /\ RedisStart
    /\ fs = {}
    /\ fcall \in {[fn |-> "auth.New", args |-> opts, res |-> <<>>] : opts \in AuthOptSeqs}
    /\ main = NotStarted

\* got, err := New(opts...)
CallAuthNew ==
    /\ fcall.fn = "auth.New"
    /\ fcall.res = <<>>
    /\ fcall' = [fcall EXCEPT !.res = <<AuthNew(fcall.args)>>]
    /\ UNCHANGED <<vaultVars, redisVars, main>>

AuthSpec == AuthInit /\ [][CallAuthNew]_vars

(***************************************************************************)
(* func main: the process from its first statement to its exit.  The       *)
(* configuration file's vault section, the files that exist and the        *)
(* moment of the shutdown signal are the environment's choice.  Butler,    *)
(* the handler and the server are other files of the package: their calls  *)
(* are modelled by the contract main relies on (a supervised task, a       *)
(* barrier that waits for it, a stop that releases the vault client).      *)
(***************************************************************************)
LogLevels == {"debug", "info", "warn", "error", "verbose"}

VaultSections ==
    [LogLevel : LogLevels, Address : Addresses, Token : Tokens,
     InsecureSkipTLS : BOOLEAN, CAPath : CaPaths,
     ClientCertPath : CertPaths, ClientKeyPath : KeyPaths]

\* The validate tags on Config.LogLevel, Vault.Address and Vault.Token.
ConfigValid(cfg) ==
    /\ cfg.LogLevel \in {"debug", "info", "warn", "error"}
    /\ cfg.Address # ""
    /\ cfg.Token # ""

\* logrus.ParseLevel succeeds on logrus's level names.
ParseLevelOK(level) ==
    level \in {"panic", "fatal", "error", "warn", "warning", "info", "debug", "trace"}

\* The options initVaultClient builds from the vault section.
VaultOpts(cfg) ==
    <<WithAddress(cfg.Address), WithToken(cfg.Token)>>
    \o (IF cfg.InsecureSkipTLS THEN <<WithInsecureSkipTLS(TRUE)>> ELSE <<>>)
    \o (IF \/ cfg.CAPath # EmptyPath
           \/ cfg.ClientCertPath # EmptyPath
           \/ cfg.ClientKeyPath # EmptyPath
        THEN <<WithTLSConfig(cfg.CAPath, cfg.ClientCertPath, cfg.ClientKeyPath)>>
        ELSE <<>>)

\* logrus Fatal/Fatalf: the entry is logged and os.Exit(1) ends the process;
\* deferred calls do not run.
Fatal(m, msg) ==
    [m EXCEPT !.exit = "fatal", !.pc = "exited", !.log = Append(@, msg)]

\* main goes on to the statement at `next`.
Goto(m, next) == [m EXCEPT !.pc = next]

Running(at) == main.exit = "running" /\ main.pc = at

\* butler := NewButler(); flag.Parse(); config.LoadConfig(*configPath);
\* updateSwaggerHost.
MainLoadConfig ==
    /\ Running("LoadConfig")
    /\ \E cfg \in VaultSections, readable \in BOOLEAN :
         main' = IF readable /\ ConfigValid(cfg)
                 THEN Goto([main EXCEPT !.config = <<cfg>>], "ParseLevel")
                 ELSE Fatal(main, "failed to load config")
    /\ UNCHANGED <<vaultVars, redisVars, fcall>>

\* logrus.ParseLevel and SetLevel, "starting service", defer of the
\* "shutdown" entry, signal.NotifyContext and defer notify().
MainParseLevel ==
    /\ Running("ParseLevel")
    /\ main' = IF ParseLevelOK(main.config[1].LogLevel)
               THEN [main EXCEPT !.pc = "initServer",
                                 !.log = Append(@, "starting service"),
                                 !.sigReg = TRUE,
                                 !.notifyCtx = "active",
                                 !.defers = <<"notify", "shutdown">>]
               ELSE Fatal(main, "error parsing log level")
    /\ UNCHANGED <<vaultVars, redisVars, fcall>>

\* initHandlerV0 and initServer: start(...) is fatal when a constructor
\* returns an error.
MainInitServer ==
    /\ Running("initServer")
    /\ \E ok \in BOOLEAN :
         main' = IF ok THEN Goto(main, "goStart")
                 ELSE Fatal(main, "error creating service")
    /\ UNCHANGED <<vaultVars, redisVars, fcall>>

\* go butler.start(func() error { return server.Start(notifyCtx) })
MainGoStart ==
    /\ Running("goStart")
    /\ main' = Goto([main EXCEPT !.task = "running"], "initVaultClient")
    /\ UNCHANGED <<vaultVars, redisVars, fcall>>

\* The supervised task ends: server.Start returned, after the context was
\* done or with an error of its own at any time.
TaskFinish ==
    /\ main.exit = "running"
    /\ main.task = "running"
    /\ main' = [main EXCEPT !.task = "finished"]
    /\ UNCHANGED <<vaultVars, redisVars, fcall>>

\* vaultClient := initVaultClient(config.Vault)
MainInitVaultClient ==
    /\ Running("initVaultClient")
    /\ LET Return(d, e) ==
               /\ vc' = d
               /\ newRet' = [nil |-> e # NilErr, err |-> e]
               /\ vstage' = IF e = NilErr THEN "ready" ELSE "failed"
               /\ main' = IF e = NilErr THEN Goto(main, "Connect")
                          ELSE Fatal(main, "error creating service")
           Check(d) == Return(d, NewClientErr(d))
       IN Check(ApplyOpts(ZeroClient, VaultOpts(main.config[1])))
    /\ UNCHANGED <<fs, nextId, vhist, redisVars, fcall>>

\* Variant of MainConnect that goes on when Connect returned an error.
MainConnect_IgnoreError ==
    /\ Running("Connect")
    /\ \E env \in ConnectEnvs :
         LET Return(r) ==
                 /\ vc' = r.vc
                 /\ nextId' = nextId + r.created
                 /\ vhist' = Append(vhist,
                        [op |-> "Connect", ctx |-> "background", pre |-> vc.client,
                         post |-> r.vc.client, err |-> r.err, health |-> r.health,
                         config |-> r.config])
                 /\ main' = Goto(main, "deferStop")
         IN Return(Connect(vc, fs, nextId, env))
    /\ UNCHANGED <<vstage, newRet, fs, redisVars, fcall>>

\* if err := vaultClient.Connect(); err != nil { Fatal }
MainConnect ==
    /\ Running("Connect")
    /\ \E env \in ConnectEnvs :
         LET Return(r) ==
                 /\ vc' = r.vc
                 /\ nextId' = nextId + r.created
                 /\ vhist' = Append(vhist,
                        [op |-> "Connect", ctx |-> "background", pre |-> vc.client,
                         post |-> r.vc.client, err |-> r.err, health |-> r.health,
                         config |-> r.config])
                 /\ main' = IF r.err = NilErr THEN Goto(main, "deferStop")
                            ELSE Fatal(main, "failed to connect to vault")
         IN Return(Connect(vc, fs, nextId, env))
    /\ UNCHANGED <<vstage, newRet, fs, redisVars, fcall>>

\* defer butler.stop(ctx, vaultClient); logrus.Info("all services started")
MainDeferStop ==
    /\ Running("deferStop")
    /\ main' = [main EXCEPT !.pc = "waitSignal",
                            !.defers = <<"butler.stop">> \o @,
                            !.log = Append(@, "all services started")]
    /\ UNCHANGED <<vaultVars, redisVars, fcall>>

\* SIGINT or SIGTERM arrives: it finishes notifyCtx while the handler of
\* signal.NotifyContext is registered, and ends the process otherwise.
Signal ==
    /\ main.exit = "running"
    /\ main' = IF main.sigReg
               THEN [main EXCEPT !.notifyCtx = "done", !.signalled = TRUE]
               ELSE [main EXCEPT !.exit = "killed", !.pc = "exited"]
    /\ UNCHANGED <<vaultVars, redisVars, fcall>>

\* <-notifyCtx.Done()
MainAwaitSignal ==
    /\ Running("waitSignal")
    /\ main.notifyCtx = "done"
    /\ main' = [main EXCEPT !.pc = "waitForAll",
                            !.log = Append(@, "received shutdown signal, stopping services...")]
    /\ UNCHANGED <<vaultVars, redisVars, fcall>>

\* butler.waitForAll() returns when no supervised task is running.
MainWaitForAll ==
    /\ Running("waitForAll")
    /\ main.task # "running"
    /\ main' = [main EXCEPT !.pc = "return",
                            !.waited = TRUE,
                            !.log = Append(@, "all services stopped")]
    /\ UNCHANGED <<vaultVars, redisVars, fcall>>

\* The deferred butler.stop(ctx, vaultClient), ctx being context.Background():
\* it stops the vault client.
ButlerStop ==
    /\ Running("return")
    /\ main.defers # <<>> /\ Head(main.defers) = "butler.stop"
    /\ LET Return(r) ==
               /\ vc' = r.vc
               /\ vhist' = Append(vhist,
                      [op |-> "Stop", ctx |-> "background", pre |-> vc.client,
                       post |-> r.vc.client, err |-> r.err, health |-> 0,
                       config |-> <<>>])
       IN Return(Stop(vc, "background"))
    /\ main' = [main EXCEPT !.defers = Tail(@)]
    /\ UNCHANGED <<vstage, newRet, fs, nextId, redisVars, fcall>>

\* The deferred notify() and the deferred "shutdown" entry, then the exit.
MainReturn ==
    /\ Running("return")
    /\ \/ /\ main.defers # <<>> /\ Head(main.defers) = "notify"
          /\ main' = [main EXCEPT !.defers = Tail(@), !.sigReg = FALSE,
                                  !.notifyCtx = "done"]
       \/ /\ main.defers # <<>> /\ Head(main.defers) = "shutdown"
          /\ main' = [main EXCEPT !.defers = Tail(@), !.log = Append(@, "shutdown")]
       \/ /\ main.defers = <<>>
          /\ main' = [main EXCEPT !.exit = "returned", !.pc = "exited"]
    /\ UNCHANGED <<vaultVars, redisVars, fcall>>

MainInit ==
    /\ VaultStart
    /\ fs \in SUBSET FileUniverse
    /\ RedisStart
    /\ fcall = NoFcall
    /\ main = NotStarted

MainNext ==
    \/ MainLoadConfig \/ MainParseLevel \/ MainInitServer \/ MainGoStart
    \/ MainInitVaultClient \/ MainConnect \/ MainDeferStop
    \/ MainAwaitSignal \/ MainWaitForAll \/ ButlerStop \/ MainReturn
    \/ TaskFinish \/ Signal

MainSpec == MainInit /\ [][MainNext]_vars

(***************************************************************************)
(* Properties of vault.NewClient (checked under VaultSpec)                 *)
(***************************************************************************)
ErrAddress == ErrorsNew("address is required")
ErrToken == ErrorsNew("token is required")
ErrCA == ErrorsNew("CA certificate is required")
ErrPair == ErrorsNew("client certificate and key must be provided together")

Constructed == vstage # "start"
HasAddress == vc.address # ""
HasToken == vc.token # ""
HasCA == vc.caPath # EmptyPath
HasCert == vc.clientCertPath # EmptyPath
HasKey == vc.clientKeyPath # EmptyPath
ExactlyOneOfPair == HasCert # HasKey
CAOk == vc.insecureSkipTLS \/ HasCA
NewClientFailed(e) == newRet.err = e /\ newRet.nil /\ vstage = "failed"
NewClientSucceeded == newRet.err = NilErr /\ ~newRet.nil /\ vstage = "ready"

\* C1: NewClient checks address, token, CA, cert/key pairing in that order
\* and returns the error of the first failing check: an empty address gives
\* "address is required" whatever the other fields are, a non-empty address
\* with an empty token gives "token is required" whatever the TLS fields
\* are, and a later check's error is returned only if every earlier check
\* passed.
C1_FirstFailingCheckWins ==
    Constructed =>
        /\ ~HasAddress => NewClientFailed(ErrAddress)
        /\ (HasAddress /\ ~HasToken) => NewClientFailed(ErrToken)
        /\ newRet.err = ErrToken => HasAddress
        /\ newRet.err = ErrCA => (HasAddress /\ HasToken)
        /\ newRet.err = ErrPair => (HasAddress /\ HasToken /\ CAOk)
        /\ newRet.err = NilErr => (HasAddress /\ HasToken /\ CAOk /\ ~ExactlyOneOfPair)

\* Every check fails at once and the address error is the one returned.
C1_Witness ==
    /\ vstage = "failed"
    /\ ~HasAddress /\ ~HasToken /\ ~CAOk /\ ExactlyOneOfPair
    /\ newRet.err = ErrAddress

\* C2: with address and token set, insecureSkipTLS false and an empty
\* caPath, NewClient fails with "CA certificate is required", whether the
\* cert/key paths are both empty, both set or only one set.
C2_CARequired ==
    (Constructed /\ HasAddress /\ HasToken /\ ~vc.insecureSkipTLS /\ ~HasCA)
        => NewClientFailed(ErrCA)

\* Only the certificate is set, and the CA error is still the one returned.
C2_Witness ==
    /\ Constructed /\ HasAddress /\ HasToken /\ ~vc.insecureSkipTLS /\ ~HasCA
    /\ HasCert /\ ~HasKey
    /\ NewClientFailed(ErrCA)

\* C3 as stated: with exactly one of clientCertPath/clientKeyPath set
\* NewClient fails with the pairing error (for any configuration), and with
\* both empty or both set it succeeds when the address, token and CA checks
\* pass.
C3_Original ==
    Constructed =>
        /\ ExactlyOneOfPair => NewClientFailed(ErrPair)
        /\ (~ExactlyOneOfPair /\ HasAddress /\ HasToken /\ CAOk) => NewClientSucceeded

\* C3 amended: with exactly one of clientCertPath/clientKeyPath set
\* NewClient always fails, and fails with the pairing error when the
\* address, token and CA checks pass (otherwise with the error of the
\* earlier failing check); with both empty or both set it succeeds when the
\* address, token and CA checks pass.
C3_PairingWhenEarlierChecksPass ==
    Constructed =>
        /\ ExactlyOneOfPair => (newRet.nil /\ newRet.err # NilErr /\ vstage = "failed")
        /\ (ExactlyOneOfPair /\ HasAddress /\ HasToken /\ CAOk) => NewClientFailed(ErrPair)
        /\ (~ExactlyOneOfPair /\ HasAddress /\ HasToken /\ CAOk) => NewClientSucceeded

\* Only the key is set, the earlier checks pass, the pairing error is returned.
C3_Witness ==
    /\ Constructed /\ HasAddress /\ HasToken /\ CAOk
    /\ HasKey /\ ~HasCert
    /\ NewClientFailed(ErrPair)

\* C4 as stated: with insecureSkipTLS false an empty caPath is rejected,
\* unless both clientCertPath and clientKeyPath are set, in which case the
\* empty caPath is accepted.
C4_Original ==
    (Constructed /\ HasAddress /\ HasToken /\ ~vc.insecureSkipTLS /\ ~HasCA) =>
        IF HasCert /\ HasKey THEN NewClientSucceeded ELSE newRet.nil

\* C4 amended: with insecureSkipTLS false NewClient requires a non-empty
\* caPath, whether or not a client certificate pair is supplied: every
\* descriptor it returns has insecureSkipTLS set or a non-empty caPath.
C4_CARequiredEvenWithPair ==
    Constructed =>
        /\ (~vc.insecureSkipTLS /\ ~HasCA) => (newRet.nil /\ newRet.err # NilErr)
        /\ NewClientSucceeded => CAOk

\* A full certificate pair without a CA is rejected.
C4_Witness ==
    /\ Constructed /\ HasAddress /\ HasToken /\ ~vc.insecureSkipTLS /\ ~HasCA
    /\ HasCert /\ HasKey
    /\ NewClientFailed(ErrCA)

(***************************************************************************)
(* Properties of vault.Client.Stop (checked under VaultSpec)               *)
(***************************************************************************)
\* C10: Stop on a vault Client with no live handle returns nil and leaves
\* the handle nil, for every context, a cancelled one included; so a Stop
\* that directly follows another Stop returns nil.
C10_StopWithoutHandle ==
    \A i \in 1..Len(vhist) :
        vhist[i].op = "Stop" =>
            /\ vhist[i].pre = NilClient =>
                   (vhist[i].err = NilErr /\ vhist[i].post = NilClient)
            /\ (i > 1 /\ vhist[i - 1].op = "Stop") => vhist[i].err = NilErr

\* Connect, Stop, then a second Stop with a cancelled context.
C10_Witness ==
    /\ Len(vhist) >= 3
    /\ vhist[1].op = "Connect" /\ vhist[1].post # NilClient
    /\ vhist[2].op = "Stop" /\ vhist[2].pre # NilClient
    /\ vhist[3].op = "Stop" /\ vhist[3].pre = NilClient
    /\ vhist[3].ctx = "canceled" /\ vhist[3].err = NilErr
    /\ vc.client = NilClient

(***************************************************************************)
(* Properties of redis.Service (checked under RedisSpec)                   *)
(***************************************************************************)
ClientIds == 1..Len(clients)
ReturnedFrom(c, op) == call[c].op = op /\ call[c].returned
ConnectRecordedFailure == once = "done" /\ svc.err # NilErr

\* C5: however many Connect calls are made on one Service, concurrently or
\* one after the other, the concrete client is constructed at most once
\* and its Connect is invoked at most once (exactly once when the gate is
\* done and the construction succeeded), and every call returns the same
\* outcome, the recorded s.err.
C5_ConnectExactlyOnce ==
    /\ Len(clients) <= 1
    /\ \A i \in ClientIds : clients[i].connects <= 1
    /\ (once = "done" /\ Len(clients) = 1) => clients[1].connects = 1
    /\ Cardinality(rets) <= 1
    /\ rets \subseteq {svc.err}
    /\ \A c \in Callers : ReturnedFrom(c, "Connect") => call[c].ret = svc.err

\* Two callers have returned from Connect; only one of them ran the body.
C5_Witness ==
    /\ \E c1, c2 \in Callers :
          /\ c1 # c2
          /\ ReturnedFrom(c1, "Connect") /\ call[c1].ran
          /\ ReturnedFrom(c2, "Connect") /\ ~call[c2].ran
          /\ call[c1].ret = NilErr /\ call[c2].ret = NilErr
    /\ Len(clients) = 1 /\ clients[1].connects = 1
    /\ svc.client = <<1>>

\* C6: once the connect body has failed (constructor error, Connect error
\* or unknown type), no later step changes the recorded error, constructs a
\* client or invokes a client's Connect, and every Connect call returning
\* from then on returns that recorded error.
C6_FailedConnectIsPermanent ==
    [][ConnectRecordedFailure =>
          /\ once' = "done"
          /\ svc'.err = svc.err
          /\ svc'.client = NilClient
          /\ Len(clients') = Len(clients)
          /\ \A i \in ClientIds : clients'[i].connects = clients[i].connects
          /\ \A c \in Callers :
                (pc[c] = "connectRet" /\ pc'[c] # "connectRet")
                    => (call'[c].returned /\ call'[c].ret = svc.err)]_vars

\* The underlying Connect failed; a later caller got the same error without
\* running the body.
C6_Witness ==
    /\ ConnectRecordedFailure
    /\ Len(clients) = 1 /\ clients[1].state = "failed" /\ clients[1].connects = 1
    /\ \E c1, c2 \in Callers :
          /\ c1 # c2
          /\ ReturnedFrom(c1, "Connect") /\ call[c1].ran /\ call[c1].ret = svc.err
          /\ ReturnedFrom(c2, "Connect") /\ ~call[c2].ran /\ call[c2].ret = svc.err

\* C7: across any sequence of Stop calls on a Service that connected, the
\* concrete client's Close is invoked at most once.
C7_CloseAtMostOnce ==
    \A i \in ClientIds : clients[i].closes <= 1

\* C8: a Stop that finds the client handle nil (Connect never called, or
\* failed) returns nil and invokes no Close; while the handle is nil no
\* client has had Close invoked.
C8_StopWithoutClient ==
    /\ \A c \in Callers :
          (ReturnedFrom(c, "Stop") /\ call[c].seen = NilClient)
              => (call[c].ret = NilErr /\ ~call[c].closed)
    /\ svc.client = NilClient => \A i \in ClientIds : clients[i].closes = 0

\* A Stop has returned after the underlying Connect failed.
C8_Witness ==
    /\ ConnectRecordedFailure
    /\ Len(clients) = 1 /\ clients[1].state = "failed"
    /\ \E c \in Callers :
          /\ ReturnedFrom(c, "Stop") /\ call[c].seen = NilClient
          /\ call[c].ret = NilErr /\ CtxDone(call[c].ctx)

\* C9: a Stop that finds a client handle invokes Close on that client with
\* the caller's context and returns what Close returned, unchanged.
C9_StopReturnsCloseResult ==
    \A c \in Callers :
        /\ (call[c].op = "Stop" /\ call[c].seen # NilClient) =>
              /\ call[c].closed
              /\ call[c].seen = svc.client
              /\ clients[call[c].seen[1]].closes >= 1
              /\ call[c].closeCtx = call[c].ctx
        /\ (ReturnedFrom(c, "Stop") /\ call[c].seen # NilClient) =>
              call[c].ret = call[c].closeRes

\* A Stop has returned the error of Close.
C9_Witness ==
    \E c \in Callers :
        /\ ReturnedFrom(c, "Stop") /\ call[c].seen # NilClient
        /\ call[c].closed
        /\ call[c].ret = LibErr("close error")

(***************************************************************************)
(* Properties of vault.Client.Connect and Stop (checked under VaultSpec)   *)
(***************************************************************************)
ConnectCalls == {i \in 1..Len(vhist) : vhist[i].op = "Connect"}
StopCalls == {i \in 1..Len(vhist) : vhist[i].op = "Stop"}
SuccessfulConnects == {i \in ConnectCalls : vhist[i].err = NilErr}

RECURSIVE HealthChecks(_)
\* Health checks made by the first n calls.
HealthChecks(n) == IF n = 0 THEN 0 ELSE HealthChecks(n - 1) + vhist[n].health

\* C11: Stop on a vault Client that holds a handle releases the handle in
\* every case; it returns the context's error when the context is already
\* finished (cancelled or past its deadline) and nil otherwise.
C11_StopReleasesThenReportsCtx ==
    \A i \in StopCalls :
        vhist[i].pre # NilClient =>
            /\ vhist[i].post = NilClient
            /\ CtxDone(vhist[i].ctx) =>
                   (vhist[i].err = CtxErr(vhist[i].ctx) /\ vhist[i].err # NilErr)
            /\ ~CtxDone(vhist[i].ctx) => vhist[i].err = NilErr

\* A connected Client was stopped with a cancelled context: the handle is
\* gone and the cancellation error came back.
C11_Witness ==
    /\ Len(vhist) >= 2
    /\ vhist[1].op = "Connect" /\ vhist[1].err = NilErr /\ vhist[1].post # NilClient
    /\ vhist[2].op = "Stop" /\ vhist[2].ctx = "canceled"
    /\ vhist[2].pre = vhist[1].post
    /\ vhist[2].err = ErrorsNew("context canceled")
    /\ vhist[2].post = NilClient

\* C12: Connect has no idempotence guard.  Every successful call, whatever
\* the handle held before it, built the config with TLS applied, created a
\* new api client carrying the token, made one health check and stored the
\* new client as the handle; K successful calls made K health checks.
C12_ConnectAlwaysReruns ==
    /\ \A i \in SuccessfulConnects :
          /\ vhist[i].health = 1
          /\ vhist[i].config # <<>>
          /\ vhist[i].config[1].Address = vc.address
          /\ vhist[i].config[1].TLS # <<>>
          /\ vhist[i].post # NilClient
          /\ vhist[i].post # vhist[i].pre
          /\ vhist[i].post[1].config = vhist[i].config[1]
          /\ vhist[i].post[1].token = vc.token
          /\ \A j \in 1..(i - 1) : vhist[j].post # vhist[i].post
    /\ HealthChecks(Len(vhist)) >= Cardinality(SuccessfulConnects)
    /\ (ConnectCalls = SuccessfulConnects) =>
          HealthChecks(Len(vhist)) = Cardinality(SuccessfulConnects)
    /\ nextId - 1 >= Cardinality(SuccessfulConnects)

\* Three Connect calls in a row succeeded, the last two on a descriptor that
\* was already connected: three health checks, each new handle replacing the
\* one before.
C12_Witness ==
    /\ Len(vhist) = 3
    /\ vhist[1].op = "Connect" /\ vhist[1].err = NilErr
    /\ vhist[2].op = "Connect" /\ vhist[2].err = NilErr
    /\ vhist[2].pre = vhist[1].post /\ vhist[2].post # vhist[1].post
    /\ vhist[3].op = "Connect" /\ vhist[3].err = NilErr
    /\ HealthChecks(3) = 3
    /\ vc.client = vhist[3].post

(***************************************************************************)
(* Properties of the TLS assembly (checked under TLSSpec and PathSpec)     *)
(***************************************************************************)
Returned(fn) == fcall.fn = fn /\ fcall.res # <<>>

Parent(dir) == IF Len(dir) > 1 THEN SubSeq(dir, 1, Len(dir) - 1) ELSE dir

RECURSIVE WalkFrom(_, _, _)
\* The directory entry reached from dir by the components i.. of p.
WalkFrom(dir, p, i) ==
    IF i > Len(p) THEN dir
    ELSE WalkFrom(IF p[i] = "." THEN dir
                  ELSE IF p[i] = ".." THEN Parent(dir)
                  ELSE Append(dir, p[i]),
                  p, i + 1)

\* The file a path names: looked up from the root when the path is
\* absolute, from the working directory otherwise.
Referent(p) == IF IsAbs(p) THEN WalkFrom(<<"/">>, p, 2) ELSE WalkFrom(Cwd, p, 1)

TLSApplied == fcall.res[1].config.TLS # <<>>
TLSUntouched == fcall.res[1].config = DefaultConfig(vc)
AnyTLSCondition == vc.insecureSkipTLS \/ HasCA \/ (HasCert /\ HasKey)
ErrPairVault == ErrorsNew("vault: client certificate and key must be provided together")

\* C13 as stated: configureTLS applies a TLS configuration only if
\* insecureSkipTLS is set, caPath is non-empty, or cert and key are both
\* non-empty; when none holds it returns nil and leaves the transport
\* configuration untouched.
C13_Original ==
    Returned("configureTLS") =>
        /\ TLSApplied => AnyTLSCondition
        /\ ~AnyTLSCondition => (fcall.res[1].err = NilErr /\ TLSUntouched)

\* C13: configureTLS applies a TLS configuration only if insecureSkipTLS is
\* set, caPath is non-empty, or cert and key are both non-empty; when none
\* holds it leaves the transport configuration untouched, and returns nil
\* if cert and key are both empty, the pairing error if exactly one is set.
C13_TLSOnlyWhenConfigured ==
    Returned("configureTLS") =>
        /\ TLSApplied => AnyTLSCondition
        /\ ~AnyTLSCondition =>
              /\ TLSUntouched
              /\ fcall.res[1].err = IF ExactlyOneOfPair THEN ErrPairVault ELSE NilErr

\* configureTLS returned nil on a Client with no TLS field set and left the
\* library defaults in place.
C13_Witness ==
    /\ Returned("configureTLS")
    /\ ~vc.insecureSkipTLS /\ ~HasCA /\ ~HasCert /\ ~HasKey
    /\ fcall.res[1].err = NilErr
    /\ fcall.res[1].config.TLS = <<>>

C15_UnpairedFailsBeforeFileChecks ==
    (/\ Returned("configureTLS")
     /\ ExactlyOneOfPair
     /\ (HasCA => Referent(vc.caPath) \in fs)) =>
        /\ fcall.res[1].err = ErrPairVault
        /\ TLSUntouched

\* The certificate alone was given, its file does not exist, the CA file
\* does: the pairing error came back, not a file-not-found error.
C15_Witness ==
    /\ Returned("configureTLS")
    /\ HasCert /\ ~HasKey /\ HasCA
    /\ Referent(vc.caPath) \in fs
    /\ Referent(vc.clientCertPath) \notin fs
    /\ fcall.res[1].err = ErrPairVault
    /\ fcall.res[1].config.TLS = <<>>

(***************************************************************************)
(* Properties of redis.New (checked under NewSpec)                         *)
(***************************************************************************)
\* The configuration the options leave behind: that of the last option.
EffectiveCfg(opts) == IF opts = <<>> THEN NilCfg ELSE opts[Len(opts)].cfg

\* C16: redis.New fails with "cfg is required" and a nil service whenever
\* the options leave no non-nil configuration; otherwise it succeeds and the
\* service stores exactly that configuration, with a nil client handle, an
\* unfired connect gate and no recorded error.
C16_NewRequiresCfg ==
    Returned("New") =>
        /\ EffectiveCfg(fcall.args) = NilCfg =>
              /\ fcall.res[1] = [nil |-> TRUE, err |-> ErrorsNew("cfg is required")]
              /\ rstage = "failed"
        /\ EffectiveCfg(fcall.args) # NilCfg =>
              /\ fcall.res[1] = [nil |-> FALSE, err |-> NilErr]
              /\ rstage = "ready"
              /\ svc = [cfg |-> EffectiveCfg(fcall.args), client |-> NilClient,
                        err |-> NilErr]
              /\ once = "fresh"
              /\ mu = 0

\* New succeeded with the configuration of its second option.
C16_Witness ==
    /\ Returned("New")
    /\ Len(fcall.args) = 2
    /\ fcall.args[1].cfg = NilCfg
    /\ fcall.args[2].cfg # NilCfg
    /\ fcall.res[1].err = NilErr
    /\ svc.cfg = fcall.args[2].cfg /\ svc.client = NilClient /\ once = "fresh"

(***************************************************************************)
(* Further properties of redis.Service (checked under RedisSpec)           *)
(***************************************************************************)
KnownTypes == {RedisTypeSingle, RedisTypeCluster}
UnknownType == rstage = "ready" /\ svc.cfg[1].Type \notin KnownTypes
ErrUnknownType == Errorf("unknown redis type: %s", <<svc.cfg[1].Type>>, NilErr)

\* C17: when cfg.Type is neither "single" nor "cluster", every Connect
\* returns the unknown-type error carrying the type value, no client is
\* constructed, no underlying Connect is invoked and the handle stays nil.
C17_UnknownTypeBuildsNothing ==
    UnknownType =>
        /\ Len(clients) = 0
        /\ svc.client = NilClient
        /\ once = "done" => svc.err = ErrUnknownType
        /\ \A c \in Callers :
              ReturnedFrom(c, "Connect") => call[c].ret = ErrUnknownType

\* A Connect ran the body on a configuration of type "unknown" and returned.
C17_Witness ==
    /\ UnknownType
    /\ \E c \in Callers :
          /\ ReturnedFrom(c, "Connect") /\ call[c].ran
          /\ call[c].ret = Errorf("unknown redis type: %s", <<"unknown">>, NilErr)
    /\ Len(clients) = 0 /\ svc.client = NilClient

InConnectBody(c) == pc[c] \in {"switch", "connect", "connecting", "unlock"}
InspectingHandle(c) == pc[c] \in {"stopCheck", "closing"}

\* C20: a Stop inspects the handle only while it holds the mutex and no
\* caller is inside the connect body, so entirely before the body took the
\* lock or after it released it; every client on which Close was invoked,
\* and the handle whenever it is set, is a client whose underlying Connect
\* had returned success: never one just constructed or still connecting.
C20_StopExcludesConnectBody ==
    /\ \A c \in Callers : (InConnectBody(c) \/ InspectingHandle(c)) => mu = c
    /\ \A c1, c2 \in Callers : ~(InConnectBody(c1) /\ InspectingHandle(c2))
    /\ \A i \in ClientIds : clients[i].closes > 0 => clients[i].state = "connected"
    /\ svc.client # NilClient => clients[svc.client[1]].state = "connected"
    /\ \A c \in Callers :
          pc[c] = "closing" => clients[call[c].seen[1]].state = "connected"

\* One caller is inside the connect body with the underlying Connect in
\* progress while another waits at the lock of Stop.
C20_Witness ==
    \E c1, c2 \in Callers :
        /\ pc[c1] = "connecting" /\ mu = c1
        /\ pc[c2] = "stopLock"
        /\ clients[call[c1].client[1]].state = "connecting"
        /\ svc.client = NilClient

(***************************************************************************)
(* Properties of the Redis config validation (checked under ConfigSpec)    *)
(***************************************************************************)
RedisChecked == Returned("LoadConfig") /\ fcall.res[1].redis # <<>>
RedisAccepted == fcall.res[1].redis = <<NilErr>>
SingleFields(cfg) == cfg.Host # "" /\ cfg.Port # 0 /\ cfg.Addrs = <<>>
ClusterFields(cfg) == cfg.Addrs # <<>> /\ cfg.Host = "" /\ cfg.Port = 0
MixedFields(cfg) == (cfg.Host # "" \/ cfg.Port # 0) /\ cfg.Addrs # <<>>

RECURSIVE LastOption(_, _, _)
\* The last option named opt among the first n of opts, <<>> if there is none.
LastOption(opts, opt, n) ==
    IF n = 0 THEN <<>>
    ELSE IF opts[n].opt = opt THEN <<opts[n]>>
    ELSE LastOption(opts, opt, n - 1)

GivenInterval(opts) ==
    LET Value(o) == IF o = <<>> THEN 0 ELSE o[1].interval
    IN Value(LastOption(opts, "WithUpdateKeyInterval", Len(opts)))

GivenVaultClient(opts) ==
    LET Value(o) == IF o = <<>> THEN NilClient ELSE o[1].client
    IN Value(LastOption(opts, "WithVaultClient", Len(opts)))

\* C19: auth.New returns a service only when updateKeyInterval is non-zero
\* and vaultClient is non-nil.  A zero interval gives "update key interval
\* is required", with or without a vault client; a non-zero interval with a
\* nil client gives "vault client is required"; the service returned with
\* either error is nil.
C19_IntervalThenClient ==
    Returned("auth.New") =>
        /\ fcall.res[1].service # <<>> =>
              /\ GivenInterval(fcall.args) # 0
              /\ GivenVaultClient(fcall.args) # NilClient
              /\ fcall.res[1].err = NilErr
              /\ fcall.res[1].service[1] =
                    [updateKeyInterval |-> GivenInterval(fcall.args),
                     vaultClient |-> GivenVaultClient(fcall.args)]
        /\ GivenInterval(fcall.args) = 0 =>
              fcall.res[1] = [service |-> <<>>,
                              err |-> ErrorsNew("update key interval is required")]
        /\ (GivenInterval(fcall.args) # 0 /\ GivenVaultClient(fcall.args) = NilClient) =>
              fcall.res[1] = [service |-> <<>>,
                              err |-> ErrorsNew("vault client is required")]
        /\ fcall.res[1].err # NilErr => fcall.res[1].service = <<>>

\* A vault client was supplied but no interval: the interval error came
\* back and no service.
C19_Witness ==
    /\ Returned("auth.New")
    /\ GivenInterval(fcall.args) = 0
    /\ GivenVaultClient(fcall.args) # NilClient
    /\ fcall.res[1].err = ErrorsNew("update key interval is required")
    /\ fcall.res[1].service = <<>>

(***************************************************************************)
(* Failure of vault.Client.Connect (checked under VaultSpec)               *)
(***************************************************************************)
FailedConnects == ConnectCalls \ SuccessfulConnects

\* C21: a Connect that fails, in the TLS assembly, in the creation of the
\* api client or in the health check, returns the error, has made at most
\* one health check and leaves the handle as it was before the call (nil
\* stays nil, an earlier handle is kept); the handle changes only in a call
\* that made a health check and returned nil.
C21_FailedConnectKeepsHandle ==
    \A i \in ConnectCalls :
        /\ vhist[i].health <= 1
        /\ i \in FailedConnects => vhist[i].post = vhist[i].pre
        /\ vhist[i].post # vhist[i].pre =>
              (vhist[i].err = NilErr /\ vhist[i].health = 1)

\* A Connect succeeded, the next one failed in its health check, made after
\* a new api client had been created: the first handle is still stored.
C21_Witness ==
    /\ Len(vhist) >= 2
    /\ vhist[1].op = "Connect" /\ vhist[1].err = NilErr
    /\ vhist[2].op = "Connect" /\ vhist[2].err # NilErr
    /\ vhist[2].health = 1
    /\ vhist[2].pre = vhist[1].post /\ vhist[2].post = vhist[1].post
    /\ vhist[2].post # NilClient
    /\ nextId = 3

(***************************************************************************)
(* Order of the TLS validation (checked under TLSSpec)                     *)
(***************************************************************************)
NotFound(fileType, path) ==
    Errorf("vault: %s file not found: %s", <<fileType>> \o Referent(path), NilErr)

CAMissing == HasCA /\ Referent(vc.caPath) \notin fs
CertMissing == HasCert /\ Referent(vc.clientCertPath) \notin fs
KeyMissing == HasKey /\ Referent(vc.clientKeyPath) \notin fs

\* C22: configureTLS validates in the order CA file, cert/key pairing,
\* client certificate file, client key file, and returns the error of the
\* first step that fails without applying a TLS configuration: a missing
\* CA file is reported whatever the state of the cert/key pair, and with
\* both client files missing the error names the client certificate.
C22_TLSValidationOrder ==
    Returned("configureTLS") =>
        /\ fcall.res[1].err # NilErr => TLSUntouched
        /\ IF CAMissing
           THEN fcall.res[1].err = NotFound("CA certificate", vc.caPath)
           ELSE IF ExactlyOneOfPair
           THEN fcall.res[1].err = ErrPairVault
           ELSE IF CertMissing
           THEN fcall.res[1].err = NotFound("client certificate", vc.clientCertPath)
           ELSE IF KeyMissing
           THEN fcall.res[1].err = NotFound("client key", vc.clientKeyPath)
           ELSE fcall.res[1].err \notin
                   {ErrPairVault,
                    NotFound("CA certificate", vc.caPath),
                    NotFound("client certificate", vc.clientCertPath),
                    NotFound("client key", vc.clientKeyPath)}

\* The CA file is missing and only the certificate of the pair is given:
\* the error is the one of the CA file.
C22_Witness ==
    /\ Returned("configureTLS")
    /\ CAMissing
    /\ HasCert /\ ~HasKey /\ CertMissing
    /\ fcall.res[1].err = NotFound("CA certificate", vc.caPath)
    /\ fcall.res[1].config.TLS = <<>>

(***************************************************************************)
(* What NewClient guarantees to Connect (checked under VaultSpec)          *)
(***************************************************************************)
\* C26: for every descriptor NewClient returned without error,
\* insecureSkipTLS is set or caPath is non-empty, so shouldConfigureTLS is
\* true, and cert and key are both set or both empty, so the pairing check
\* of configureClientCertificates passes; no Connect returns the pairing
\* error and every config handed to api.NewClient has TLS applied.
C26_ConstructorImpliesTLS ==
    vstage = "ready" =>
        /\ vc.insecureSkipTLS \/ HasCA
        /\ shouldConfigureTLS(vc)
        /\ ~ExactlyOneOfPair
        /\ configureClientCertificates(vc, fs, NewTLSConfig(vc)).err # ErrPairVault
        /\ \A i \in ConnectCalls :
              /\ vhist[i].err # ErrPairVault
              /\ vhist[i].config # <<>> => vhist[i].config[1].TLS # <<>>

\* A descriptor with CA, certificate and key connected: the TLS
\* configuration with the client pair was applied.
C26_Witness ==
    /\ vstage = "ready"
    /\ ~vc.insecureSkipTLS /\ HasCA /\ HasCert /\ HasKey
    /\ Len(vhist) >= 1
    /\ vhist[1].op = "Connect" /\ vhist[1].err = NilErr
    /\ vhist[1].config[1].TLS # <<>>
    /\ vhist[1].config[1].TLS[1].ClientCert = Referent(vc.clientCertPath)

(***************************************************************************)
(* The handle of redis.Service over its lifetime (checked under RedisSpec) *)
(***************************************************************************)
HandleConsistent ==
    /\ svc.client # NilClient =>
          /\ once # "fresh"
          /\ svc.err = NilErr
          /\ svc.client[1] \in ClientIds
          /\ clients[svc.client[1]].state = "connected"
    /\ svc.err # NilErr => svc.client = NilClient

\* C24: whenever the mutex of a Service built by New is free, the handle is
\* non-nil only if the gate has fired, the recorded error is nil and the
\* underlying Connect of that client returned success, and a non-nil
\* recorded error comes with a nil handle; no step of any Connect or Stop
\* changes or clears a handle that is set.
C24_HandleSetOnceAndKept ==
    /\ []((rstage = "ready" /\ mu = 0) => HandleConsistent)
    /\ [][svc.client # NilClient => svc'.client = svc.client]_vars

\* The handle is still set, and the mutex free, after a Stop closed the
\* client and returned.
C24_Witness ==
    /\ mu = 0 /\ once = "done"
    /\ svc.client = <<1>> /\ svc.err = NilErr
    /\ clients[1].state = "connected" /\ clients[1].closes = 1
    /\ \E c \in Callers : ReturnedFrom(c, "Stop") /\ call[c].closed

SomeClientClosed == \E i \in ClientIds : clients[i].closes >= 1
StopStep(c) == pc[c] \in {"stopLock", "stopCheck", "closing"} /\ pc'[c] # pc[c]

\* C25: once a Stop has closed the client of a connected Service, no later
\* step constructs a client, invokes an underlying Connect or changes the
\* handle or the recorded error, and every Connect that has returned
\* returned nil: the Service reports success while it holds the closed
\* client.  No step of a Stop touches the gate, so a Stop that ends before
\* the first Connect leaves the gate fresh for it.
C25_GateIsIrreversible ==
    /\ [](SomeClientClosed =>
            /\ once # "fresh"
            /\ svc.err = NilErr
            /\ Len(clients) = 1 /\ clients[1].connects = 1
            /\ svc.client = <<1>>
            /\ \A c \in Callers : ReturnedFrom(c, "Connect") => call[c].ret = NilErr)
    /\ [][SomeClientClosed =>
            /\ Len(clients') = Len(clients)
            /\ clients'[1].connects = clients[1].connects
            /\ svc' = svc]_vars
    /\ [][(\E c \in Callers : StopStep(c)) => (once' = once /\ svc' = svc)]_vars

\* Connect, Stop, then a Connect by the caller that stopped: it returned
\* nil without running the body; the one client was connected once and is
\* closed.
C25_Witness ==
    /\ SomeClientClosed
    /\ calls = 3
    /\ Len(clients) = 1 /\ clients[1].connects = 1 /\ clients[1].closes = 1
    /\ \E c1, c2 \in Callers :
          /\ c1 # c2
          /\ ReturnedFrom(c1, "Connect") /\ call[c1].ran
          /\ ReturnedFrom(c2, "Connect") /\ ~call[c2].ran /\ call[c2].ret = NilErr

\* C28: the underlying Connect is invoked only by the caller that runs the
\* gated body, with that caller's context.  A caller that does not run the
\* body leaves the gate only when the body is done and returns the recorded
\* outcome, also when its own context is already finished.
C28_OnlyWinnersContext ==
    /\ [](\A c \in Callers :
             (ReturnedFrom(c, "Connect") /\ ~call[c].ran) =>
                 /\ once = "done"
                 /\ call[c].ret = svc.err
                 /\ svc.client # NilClient => call[c].ret = NilErr)
    /\ [][\A c \in Callers :
             /\ (pc[c] = "connect" /\ pc'[c] = "connecting") =>
                   /\ call[c].ran
                   /\ clients'[call[c].client[1]].connectCtx =
                         <<[owner |-> c, ctx |-> call[c].ctx]>>
             /\ (pc[c] = "onceDo" /\ pc'[c] = "connectRet") => once = "done"]_vars
    /\ [][(\A c \in Callers : ~(pc[c] = "connect" /\ pc'[c] = "connecting")) =>
             \A i \in ClientIds :
                 /\ clients'[i].connects = clients[i].connects
                 /\ clients'[i].connectCtx = clients[i].connectCtx]_vars

\* The body ran with a background context and connected; a caller with a
\* cancelled context that did not run the body got nil.
C28_Witness ==
    \E c1, c2 \in Callers :
        /\ c1 # c2
        /\ call[c1].op = "Connect" /\ call[c1].ran /\ call[c1].ctx = "background"
        /\ ReturnedFrom(c2, "Connect") /\ ~call[c2].ran
        /\ call[c2].ctx = "canceled" /\ call[c2].ret = NilErr
        /\ Len(clients) = 1
        /\ clients[1].connectCtx = <<[owner |-> c1, ctx |-> "background"]>>
        /\ svc.client = <<1>>

(***************************************************************************)
(* Termination of redis.Service calls (checked under RedisFairSpec)        *)
(***************************************************************************)
\* C27: every Connect or Stop call that has started eventually returns,
\* whatever the other callers do, given that the constructor, the
\* underlying Connect and Close return: since callers start finitely many
\* calls, from some point on every caller is back from its last call.  The
\* mutex is held only by a caller inside the connect body or between Lock
\* and return in Stop, so every exit of the body, the error paths
\* included, has released it.
C27_EveryCallReturns ==
    /\ <>[](\A c \in Callers :
               pc[c] = "idle" /\ (call[c] # NoCall => call[c].returned))
    /\ [](\A c \in Callers :
             /\ mu = c => (InConnectBody(c) \/ InspectingHandle(c))
             /\ mu \in {0} \cup Callers)

\* After the body failed in the constructor, three calls, a Connect that
\* ran the body and a Stop among them, have all returned and the mutex is
\* free.
C27_Witness ==
    /\ calls = 3 /\ mu = 0 /\ once = "done"
    /\ svc.err # NilErr /\ Len(clients) = 0
    /\ svc.cfg[1].Type \in KnownTypes
    /\ \A c \in Callers : pc[c] = "idle" /\ call[c].returned
    /\ \E c1, c2 \in Callers :
          /\ c1 # c2
          /\ call[c1].op = "Connect" /\ call[c1].ran
          /\ call[c2].op = "Stop"


(***************************************************************************)
(* Release of the vault client by main (checked under MainSpec)            *)
(***************************************************************************)
VaultReleased == \E i \in 1..Len(vhist) : vhist[i].op = "Stop"
VaultConnected ==
    \E i \in 1..Len(vhist) : vhist[i].op = "Connect" /\ vhist[i].err = NilErr
VaultConnectFailed ==
    \E i \in 1..Len(vhist) : vhist[i].op = "Connect" /\ vhist[i].err # NilErr
Logged(msg) == \E i \in 1..Len(main.log) : main.log[i] = msg
ReleaseStep ==
    /\ Len(vhist') = Len(vhist) + 1
    /\ vhist'[Len(vhist')].op = "Stop"

\* C23: main releases the vault client only in a step taken after the
\* vault Connect succeeded, the shutdown signal arrived and waitForAll
\* returned.  When NewClient or Connect returned an error the process has
\* exited fatally, "all services started" was not logged and nothing was
\* released; an exited process takes no further step.
C23_ReleaseOnlyAfterShutdown ==
    /\ [][ReleaseStep =>
            /\ VaultConnected /\ ~VaultConnectFailed
            /\ main.signalled
            /\ main.waited /\ main.task # "running"
            /\ Logged("all services stopped")]_vars
    /\ []((vstage = "failed" \/ VaultConnectFailed) =>
            /\ main.exit = "fatal"
            /\ ~Logged("all services started")
            /\ ~VaultReleased)
    /\ [](VaultReleased => VaultConnected /\ main.signalled /\ main.waited)
    /\ [][main.exit = "running"]_vars

\* A whole run: connected, signalled, the server task waited for, the vault
\* client released by the deferred stop, and main returned.
C23_Witness ==
    /\ main.exit = "returned"
    /\ VaultReleased /\ VaultConnected
    /\ vc.client = NilClient
    /\ main.log = <<"starting service", "all services started",
                    "received shutdown signal, stopping services...",
                    "all services stopped", "shutdown">>

=============================================================================
